---------------------------- MODULE Spec2Model ----------------------------
(***************************************************************************)
(* A model of horvay/shorter.                                              *)
(*                                                                         *)
(*   Spec           the interval compile loop of remove_chunks and         *)
(*                  remove_silence (core/video_utils.py) and the silence   *)
(*                  adapter that feeds it                                  *)
(*   SpecNormalize  _word_timing_adjusted (utils/examples/                 *)
(*                  example_captioning.py)                                 *)
(*   SpecCaption    caption_video, both layout policies (same file)        *)
(*   SpecDraw       CaptioningThread.build_filter_complex                  *)
(*                  (ui/caption_tab.py)                                    *)
(*   SpecZoom       the handlers of the zoom tab (ui/zoom_tab.py)          *)
(*   SpecTab        the handlers of the remove-chunks tab and its worker   *)
(*                  thread (ui/remove_chunks_tab.py)                       *)
(*   SpecLayout     the two multi-line layouts, one call at a time         *)
(*   SpecFit        _create_font_autoresize (example_captioning.py)        *)
(*   SpecDownload   the download tab and its worker (ui/download_tab.py,   *)
(*                  core/downloader.py)                                    *)
(*   SpecPan        process_zoom_pan (core/video_utils.py)                 *)
(*   SpecWorkers    the process button and the worker thread of the four   *)
(*                  processing tabs; SpecWorkersFair adds the fairness of  *)
(*                  the threads and of the event loop                      *)
(*                                                                         *)
(* All specifications share the variables and Init; each part's actions    *)
(* leave the other parts' variables unchanged.                             *)
(*                                                                         *)
(* Times of the compile loop are exact numbers of tenths of a second       *)
(* (1.3 s is 13), times of the captions exact numbers of sixths of a       *)
(* second (0.5 s is 3), so the arithmetic of the model is exact where the  *)
(* code computes in floats. A filter expression is the sequence of its     *)
(* clips, in the order in which the code joins them with "+".              *)
(***************************************************************************)
EXTENDS Integers, Sequences, FiniteSets

(* ------------------------------ bounds ------------------------------- *)

\* Largest time of a bounded removal interval, in tenths of a second.
MaxT == 3
\* Longest bounded removal list handed to remove_chunks.
MaxChunks == 2
\* Largest time of a bounded detector marker, in tenths of a second.
MaxS == 3
\* Longest bounded detector log, in lines.
MaxLog == 3
\* Largest bounded padding, in tenths of a second.
MaxPad == 1
\* Largest bounded media duration beyond MaxT, in tenths of a second.
MaxDurExtra == 1

\* Largest time of a bounded transcript word, in sixths of a second.
MaxW == 7
\* Longest bounded word text handed to the timing normalizer, in characters.
MaxTextLen == 8

(* ------------------------- program constants ------------------------- *)

\* padding: float = 0.5
DefaultPadding == 5

(* ------------------------- inputs of the calls ----------------------- *)

RECURSIVE SeqsUpTo(_, _)
\* Every sequence over S of length at most n.
SeqsUpTo(S, n) ==
    IF n = 0 THEN {<<>>}
    ELSE LET shorter == SeqsUpTo(S, n - 1)
         IN  shorter \cup {Append(s, x) : s \in shorter, x \in S}

Range(s) == {s[i] : i \in 1..Len(s)}

Min(a, b) == IF a <= b THEN a ELSE b

\* Scenario 1 of the specification: removals (2,4), (4,6) on a 10 s timeline.
Scenario1 == [chunks |-> <<<<20, 40>>, <<40, 60>>>>, duration |-> 100]

\* (start, end) tuples as a caller may pass them: nothing in remove_chunks
\* restricts them, so end <= start is among them.
Chunks == (0..MaxT) \X (0..MaxT)
ChunkLists == SeqsUpTo(Chunks, MaxChunks) \cup {Scenario1.chunks}

InputPaths == {"videos/cuts/a.mp4"}
OutputPaths == {"videos/cuts/a.mp4", "videos/cuts/manualcut_a.mp4"}

\* A line of the detector's diagnostic stream: a silence_start or silence_end
\* marker with its unsigned decimal, or any text neither pattern matches.
Marker(kind, t) == [kind |-> kind, t |-> t]
OtherLine == [kind |-> "other", t |-> 0]
LogLines ==
    {Marker(k, t) : k \in {"silence_start", "silence_end"}, t \in 0..MaxS}
        \cup {OtherLine}

\* Scenarios 2 and 3 of the specification, and a log of two silences.
Scenario2Log == <<Marker("silence_start", 10), Marker("silence_end", 13)>>
Scenario3Log == <<Marker("silence_start", 10), Marker("silence_end", 40)>>
TwoSilencesLog ==
    <<Marker("silence_start", 10), Marker("silence_end", 40),
      Marker("silence_start", 60), Marker("silence_end", 75)>>
DetectorLogs ==
    SeqsUpTo(LogLines, MaxLog) \cup {Scenario2Log, Scenario3Log, TwoSilencesLog}

Paddings == (0..MaxPad) \cup {DefaultPadding}

(* ------------------------- the filter expression --------------------- *)

\* f"between(t,{last_end},{start})" and f"gte(t,{last_end})"
Between(lo, hi) == [op |-> "between", lo |-> lo, hi |-> hi]
Gte(lo) == [op |-> "gte", lo |-> lo, hi |-> lo]

\* No select expression was built.
NoFilter == <<>>

(* --------------------- the compile loop (both callers) --------------- *)

\* Python compares the (start, end) tuples lexicographically.
TupleLessEq(a, b) == a[1] < b[1] \/ (a[1] = b[1] /\ a[2] <= b[2])

RECURSIVE InsertSorted(_, _)
InsertSorted(x, s) ==
    IF s = <<>> THEN <<x>>
    ELSE IF TupleLessEq(Head(s), x) THEN <<Head(s)>> \o InsertSorted(x, Tail(s))
    ELSE <<x>> \o s

RECURSIVE sorted(_)
\* sorted(chunks_to_remove): ascending and stable.
sorted(s) ==
    IF s = <<>> THEN <<>>
    ELSE InsertSorted(s[Len(s)], sorted(SubSeq(s, 1, Len(s) - 1)))

\* clips.append(f"between(t,{last_end},{start})"): appended for every removal.
KeepClip(last_end, start) == <<Between(last_end, start)>>

\* The cursor is left where it was.
AdvanceCursorStale(last_end, end) == last_end

\* last_end = end
AdvanceCursor(last_end, end) == end

RECURSIVE ClipLoop(_, _, _)
\* for start, end in sorted(...): ...; then clips.append(f"gte(t,{last_end})")
ClipLoop(rest, clips, last_end) ==
    IF rest = <<>> THEN Append(clips, Gte(last_end))
    ELSE ClipLoop(Tail(rest),
                  clips \o KeepClip(last_end, Head(rest)[1]),
                  AdvanceCursor(last_end, Head(rest)[2]))

\* clips = []; last_end = 0.0; the loop; select_filter = "+".join(clips)
SelectFilter(chunks) == ClipLoop(sorted(chunks), <<>>, 0)

(* ------------------------------ subprocesses ------------------------- *)

Cmd(name, ok) == [cmd |-> name, ok |-> ok]

\* What a call leaves behind: the commands it ran, the select expression it
\* built (NoFilter when none), and how it ended: "True", "False", or the
\* exception that left the function.
Outcome(commands, filter, result) ==
    [commands |-> commands, select_filter |-> filter, result |-> result]

\* if input_path != output_path: subprocess.run(["cp", ...], check=True); return True
CopyThrough(before, input_path, output_path, env) ==
    IF input_path # output_path
    THEN Outcome(Append(before, Cmd("cp", ~env.cpFails)), NoFilter,
                 IF env.cpFails THEN "CalledProcessError" ELSE "True")
    ELSE Outcome(before, NoFilter, "True")

\* subprocess.run(command, check=True, ...) of the select/aselect command;
\* CalledProcessError is caught and turned into False.
RunSelect(before, filter, env) ==
    Outcome(Append(before, Cmd("ffmpeg_select", ~env.ffmpegFails)), filter,
            IF env.ffmpegFails THEN "False" ELSE "True")

(* ------------------------------ remove_chunks ------------------------ *)

\* Which of os.makedirs and the subprocesses fail, should the call reach them.
ChunkEnvs == [makedirsFails : BOOLEAN, cpFails : BOOLEAN, ffmpegFails : BOOLEAN]

\* The empty list is not told apart: the loop and the filter command run.
remove_chunks_NoEmptyCheck(input_path, output_path, chunks, env) ==
    IF env.makedirsFails THEN Outcome(<<>>, NoFilter, "OSError")
    ELSE RunSelect(<<>>, SelectFilter(chunks), env)

remove_chunks(input_path, output_path, chunks, env) ==
    IF env.makedirsFails THEN Outcome(<<>>, NoFilter, "OSError")
    ELSE IF chunks = <<>> THEN CopyThrough(<<>>, input_path, output_path, env)
    ELSE RunSelect(<<>>, SelectFilter(chunks), env)

(* ------------------------------ remove_silence ----------------------- *)

RECURSIVE findall(_, _)
\* re.findall(r"<kind>: (\d+\.?\d*)", output): the captured numbers of the
\* lines the pattern matches, in order of appearance.
findall(kind, output) ==
    IF output = <<>> THEN <<>>
    ELSE IF Head(output).kind = kind
         THEN <<Head(output).t>> \o findall(kind, Tail(output))
         ELSE findall(kind, Tail(output))

\* The pairs are aligned at the end of the two lists.
zipFromEnd(starts, ends) ==
    LET n == Min(Len(starts), Len(ends))
    IN  [i \in 1..n |-> <<starts[Len(starts) - n + i], ends[Len(ends) - n + i]>>]

\* zip(silence_starts, silence_ends): stops with the shorter list.
zip(starts, ends) ==
    [i \in 1..Min(Len(starts), Len(ends)) |-> <<starts[i], ends[i]>>]

\* The comparison lets a silence of exactly twice the padding through.
LongEnoughOrEqual(start, end, pad) == end - start >= 2 * pad

\* if end - start > 2 * padding
LongEnough(start, end, pad) == end - start > 2 * pad

\* The padding is left off the end of the silence.
PaddedChunkStartOnly(start, end, pad) == <<start + pad, end>>

\* chunks_to_remove.append((start + padding, end - padding))
PaddedChunk(start, end, pad) == <<start + pad, end - pad>>

RECURSIVE PaddedChunks(_, _)
\* Step 3: the loop over the zipped pairs.
PaddedChunks(prs, pad) ==
    IF prs = <<>> THEN <<>>
    ELSE LET start == Head(prs)[1]
             end == Head(prs)[2]
         IN  (IF LongEnough(start, end, pad)
              THEN <<PaddedChunk(start, end, pad)>> ELSE <<>>)
                 \o PaddedChunks(Tail(prs), pad)

\* Which of os.makedirs and the subprocesses fail, should the call reach
\* them, and the stderr of a detect command that succeeds.
SilenceEnvs ==
    [makedirsFails : {FALSE}, detectFails : {FALSE}, output : DetectorLogs,
     cpFails : BOOLEAN, ffmpegFails : BOOLEAN]
    \cup [makedirsFails : {FALSE}, detectFails : {TRUE}, output : {<<>>},
          cpFails : {FALSE}, ffmpegFails : {FALSE}]
    \cup [makedirsFails : {TRUE}, detectFails : {FALSE}, output : {<<>>},
          cpFails : {FALSE}, ffmpegFails : {FALSE}]

\* The locals of a remove_silence call that got as far as parsing the log.
Parsed(env, pad) ==
    LET starts == findall("silence_start", env.output)
        ends == findall("silence_end", env.output)
        prs == IF starts = <<>> THEN <<>> ELSE zip(starts, ends)
    IN  [silence_starts |-> starts, silence_ends |-> ends, pairs |-> prs,
         chunks_to_remove |-> PaddedChunks(prs, pad)]

NotParsed ==
    [silence_starts |-> <<>>, silence_ends |-> <<>>, pairs |-> <<>>,
     chunks_to_remove |-> <<>>]

\* The second early return is missing: an empty candidate list is compiled.
remove_silence_NoCandidateCheck(input_path, output_path, pad, env) ==
    LET detect == <<Cmd("ffmpeg_detect", ~env.detectFails)>>
        loc == Parsed(env, pad)
    IN  IF env.makedirsFails THEN Outcome(<<>>, NoFilter, "OSError")
        ELSE IF env.detectFails THEN Outcome(detect, NoFilter, "False")
        ELSE IF loc.silence_starts = <<>>
             THEN CopyThrough(detect, input_path, output_path, env)
        ELSE RunSelect(detect, SelectFilter(loc.chunks_to_remove), env)

remove_silence(input_path, output_path, pad, env) ==
    LET detect == <<Cmd("ffmpeg_detect", ~env.detectFails)>>
        loc == Parsed(env, pad)
    IN  IF env.makedirsFails THEN Outcome(<<>>, NoFilter, "OSError")
        ELSE IF env.detectFails THEN Outcome(detect, NoFilter, "False")
        ELSE IF loc.silence_starts = <<>>
             THEN CopyThrough(detect, input_path, output_path, env)
        ELSE IF loc.chunks_to_remove = <<>>
             THEN CopyThrough(detect, input_path, output_path, env)
        ELSE RunSelect(detect, SelectFilter(loc.chunks_to_remove), env)

(* ------------------------- _word_timing_adjusted --------------------- *)

(***************************************************************************)
(* Caption times are exact numbers of sixths of a second (0.5 s is 3). In  *)
(* that unit log_8(n) seconds is log_2(n * n), so a duration d exceeds it  *)
(* exactly when 2^d > n * n. A start the normalizer moved is end minus an  *)
(* irrational logarithm: a time is kept as [base, len], which stands for   *)
(* base - log_8(len) seconds; len = 1 is the plain time base.              *)
(***************************************************************************)

RECURSIVE Pow2(_)
Pow2(d) == IF d <= 0 THEN 1 ELSE 2 * Pow2(d - 1)

Time(base, len) == [base |-> base, len |-> len]
Exact(t) == Time(t, 1)

\* a <= b for two such times: a.base - b.base <= log_8(a.len / b.len).
TimeLeq(a, b) ==
    IF a.base >= b.base
    THEN Pow2(a.base - b.base) * b.len * b.len <= a.len * a.len
    ELSE b.len * b.len <= Pow2(b.base - a.base) * a.len * a.len

TimeEq(a, b) == TimeLeq(a, b) /\ TimeLeq(b, a)

\* The duration is compared with the logarithm to base 2.
ExceedsLog2(duration, n) ==
    duration > 0 /\ Pow2(duration) > n * n * n * n * n * n

\* duration > math.log(len(word["word"]), 8)
ExceedsLog8(duration, n) == duration > 0 /\ Pow2(duration) > n * n

\* The start is moved whatever the duration.
word_timing_adjusted_Always(word) ==
    <<Time(word.end, Len(word.word)), Exact(word.end)>>

\* _word_timing_adjusted(word): (start, end)
word_timing_adjusted(word) ==
    LET start == word.start
        end == word.end
        duration == end - start
    IN  IF ExceedsLog8(duration, Len(word.word))
        THEN <<Time(end, Len(word.word)), Exact(end)>>
        ELSE <<Exact(start), Exact(end)>>

\* A text of n characters.
TextOfLen(n) == [i \in 1..n |-> "a"]

\* Scenario 4 of the specification: the word "a" from 0.0 s to 0.5 s.
Scenario4Word == [word |-> <<"a">>, start |-> 0, end |-> 3]

\* Words as the transcription may hold them: nothing orders start and end.
NormalizerWords ==
    [word : {TextOfLen(n) : n \in 1..MaxTextLen}, start : 0..MaxW, end : 0..MaxW]
        \cup {Scenario4Word}

NoWord == [word |-> <<>>, start |-> 0, end |-> 0]

(* ------------------------- texts and their measure ------------------- *)

(***************************************************************************)
(* A word text is the sequence of its characters. The rendered width of a  *)
(* text is the sum of its glyphs' advances, an advance being a number of   *)
(* tenths of the font size; one proportional font stands for the font file *)
(* the caller names. Pixels and font sizes are integers.                   *)
(***************************************************************************)

GlyphTenths(ch) ==
    CASE ch = " " -> 3
      [] ch = "i" -> 3
      [] ch = "-" -> 4
      [] ch = "w" -> 8
      [] OTHER -> 6

RECURSIVE TextTenths(_)
TextTenths(text) ==
    IF text = <<>> THEN 0 ELSE GlyphTenths(Head(text)) + TextTenths(Tail(text))

\* Width in pixels of text drawn at font size tenths_of_size / 10.
TextWidth(text, tenths_of_size) == (TextTenths(text) * tenths_of_size) \div 100

\* str.startswith("-")
StartsWithHyphen(text) == Len(text) > 0 /\ Head(text) = "-"

\* str.strip()
RECURSIVE lstrip(_)
lstrip(text) ==
    IF text # <<>> /\ Head(text) = " " THEN lstrip(Tail(text)) ELSE text

RECURSIVE rstrip(_)
rstrip(text) ==
    IF text # <<>> /\ text[Len(text)] = " "
    THEN rstrip(SubSeq(text, 1, Len(text) - 1))
    ELSE text

strip(text) == rstrip(lstrip(text))

\* str.lower(), on the letters the modelled texts use.
LowerChar(ch) ==
    CASE ch = "A" -> "a"
      [] ch = "I" -> "i"
      [] ch = "T" -> "t"
      [] OTHER -> ch

lower(text) == [i \in 1..Len(text) |-> LowerChar(text[i])]

\* str.replace(ch, "")
RECURSIVE without(_, _)
without(text, ch) ==
    IF text = <<>> THEN <<>>
    ELSE IF Head(text) = ch THEN without(Tail(text), ch)
    ELSE <<Head(text)>> \o without(Tail(text), ch)

(* ------------------------- transcriptions ---------------------------- *)

\* Most words of a bounded transcription.
MaxWords == 3

\* Word texts as the recognizer emits them: a leading blank, or a leading
\* hyphen for the continuation of the word before.
CapTexts == {<<" ", "a">>, <<"-", "b">>, <<" ", "w", "i", "d", "e">>}

\* Silence before a word, in sixths of a second: none, exactly 2 s, over 2 s.
Gaps == {0, 12, 13}

\* Every bounded word is spoken for half a second.
WordDur == [sixths |-> 3]

\* The words of a transcription follow one another in time.
RECURSIVE TimedFrom(_, _)
TimedFrom(said, t) ==
    IF said = <<>> THEN <<>>
    ELSE LET start == t + Head(said).gap
             end == start + WordDur.sixths
         IN  <<[word |-> Head(said).word, start |-> start, end |-> end]>>
                 \o TimedFrom(Tail(said), end)

Transcriptions ==
    {TimedFrom(said, 0) : said \in SeqsUpTo([word : CapTexts, gap : Gaps], MaxWords)}

LastEnd(transcription) ==
    IF transcription = <<>> THEN 0 ELSE transcription[Len(transcription)].end

TimePlus(t, sixths) == Time(t.base + sixths, t.len)

(* ------------------------- caption_video ----------------------------- *)

None == <<>>

\* A TextClip drawn with method "label": the text's width plus the left and
\* right margins, the given height plus the top and bottom margins.
TextClip(text, tenths_of_size, height, margin_x, margin_y) ==
    [text |-> text,
     font |-> tenths_of_size,
     size |-> <<TextWidth(text, tenths_of_size) + margin_x, height + margin_y>>,
     pos |-> <<0, 0>>,
     start |-> Exact(0),
     end |-> None]

with_position(clip, pos) == [clip EXCEPT !.pos = pos]
with_start(clip, start) == [clip EXCEPT !.start = start]
\* with_duration(end - clip.start): the clip is shown until end.
with_duration_until(clip, end) == [clip EXCEPT !.end = end]

\* _create_font_autoresize(size, word, max_width): modifiers 1.0 down to 0.0,
\* the first clip narrower than max_width, or the last one tried.
RECURSIVE AutoresizeFrom(_, _, _, _)
AutoresizeFrom(i, size, word, max_width) ==
    LET clip == TextClip(word, size * i, size, 26, 14)
    IN  IF clip.size[1] < max_width \/ i = 0
        THEN clip
        ELSE AutoresizeFrom(i - 1, size, word, max_width)

create_font_autoresize(size, word, max_width) ==
    AutoresizeFrom(10, size, word, max_width)

\* The list with its clips shown until end appended to text_clips.
Shown(text_clips, line, end) ==
    text_clips \o [k \in 1..Len(line) |-> with_duration_until(line[k], end)]

\* One turn of the loop of caption_type 1 (lines 258-294). The clip that
\* _create_font_autoresize returns there is replaced before it is used.
FlowWord(s, n_word, xpos, ypos, template_width, font_size) ==
    LET clip == TextClip(n_word.word, font_size * 10, font_size + 8, 0, 20)
        start == word_timing_adjusted(n_word)[1]
        overflow == s.x + clip.size[1] > template_width
        x == IF overflow THEN xpos ELSE s.x
        text_clips ==
            IF overflow
            THEN Shown(s.text_clips, s.current_line, TimePlus(start, 3))
            ELSE s.text_clips
        current_line == IF overflow THEN <<>> ELSE s.current_line
        placed ==
            [with_start(with_position(clip, <<x + 10, ypos>>), start)
                EXCEPT !.size = <<clip.size[1], clip.size[2] * 2>>]
    IN  [x |-> x + placed.size[1],
         current_line |-> Append(current_line, placed),
         text_clips |-> text_clips]

RECURSIVE FlowLoop(_, _, _, _, _, _)
FlowLoop(transcription, s, xpos, ypos, template_width, font_size) ==
    IF transcription = <<>> THEN s
    ELSE FlowLoop(Tail(transcription),
                  FlowWord(s, Head(transcription), xpos, ypos,
                           template_width, font_size),
                  xpos, ypos, template_width, font_size)

\* if caption_type == 1: the single line that flows (lines 249-294).
FlowingLayout(transcription, video, caption_position, font_size) ==
    LET xpos == IF caption_position = None
                THEN video.size[1] \div 10 ELSE caption_position[1]
        ypos == IF caption_position = None
                THEN video.size[2] \div 10 ELSE caption_position[2]
        template_width == video.size[1] - xpos
    IN  FlowLoop(transcription,
                 [x |-> xpos, current_line |-> <<>>, text_clips |-> <<>>],
                 xpos, ypos, template_width, font_size)

AVOID_LIST ==
    { <<"a">>, <<"a", "b", "o", "u", "t">>, <<"a", "l", "l">>,
      <<"a", "n">>, <<"a", "n", "d">>, <<"a", "r", "e">>, <<"a", "s">>,
      <<"a", "t">>, <<"b", "e">>, <<"b", "e", "e", "n">>,
      <<"b", "u", "t">>, <<"b", "y">>, <<"c", "a", "n">>,
      <<"c", "o", "u", "l", "d">>, <<"c", "a", "m", "e">>,
      <<"c", "o", "m", "e">>, <<"d", "i", "d">>, <<"d", "o">>,
      <<"d", "o", "e", "s">>, <<"f", "o", "r">>, <<"f", "r", "o", "m">>,
      <<"h", "a", "d">>, <<"h", "a", "s">>, <<"h", "a", "v", "e">>,
      <<"h", "e">>, <<"h", "e", "r">>, <<"h", "e", "r", "e">>,
      <<"h", "i", "m">>, <<"h", "i", "s">>, <<"h", "o", "w">>,
      <<"i", "f">>, <<"i", "n">>, <<"i", "n", "t", "o">>, <<"i", "s">>,
      <<"i", "t">>, <<"i", "t", "s">>, <<"l", "i", "k", "e">>,
      <<"m", "e">>, <<"m", "o", "r", "e">>, <<"m", "y">>, <<"n", "o">>,
      <<"n", "o", "t">>, <<"o", "f">>, <<"o", "n">>, <<"o", "n", "e">>,
      <<"o", "r">>, <<"o", "u", "r">>, <<"o", "u", "t">>,
      <<"s", "h", "e">>, <<"s", "h", "o", "u", "l", "d">>, <<"s", "o">>,
      <<"s", "o", "m", "e">>, <<"t", "h", "a", "n">>,
      <<"t", "h", "a", "t">>, <<"t", "h", "e">>,
      <<"t", "h", "e", "i", "r">>, <<"t", "h", "e", "m">>,
      <<"t", "h", "e", "n">>, <<"t", "h", "e", "r", "e">>,
      <<"t", "h", "e", "s", "e">>, <<"t", "h", "e", "y">>,
      <<"t", "h", "i", "s">>, <<"t", "h", "o", "s", "e">>, <<"t", "o">>,
      <<"t", "o", "o">>, <<"u", "p">>, <<"u", "s">>, <<"w", "a", "s">>,
      <<"w", "e">>, <<"w", "e", "r", "e">>, <<"w", "h", "a", "t">>,
      <<"w", "h", "e", "n">>, <<"w", "h", "e", "r", "e">>,
      <<"w", "h", "i", "c", "h">>, <<"w", "h", "o">>,
      <<"w", "i", "l", "l">>, <<"w", "i", "t", "h">>,
      <<"w", "o", "u", "l", "d">>, <<"y", "o", "u">>,
      <<"y", "o", "u", "r">>, <<"a", "m">>, <<"a", "n">>,
      <<"a", "r", "e">>, <<"a", "t">>, <<"b", "e">>, <<"b", "y">>,
      <<"d", "i", "d">>, <<"d", "o">>, <<"g", "o">>, <<"h", "a", "d">>,
      <<"h", "a", "s">>, <<"h", "a", "v", "e">>, <<"h", "e">>,
      <<"h", "e", "r">>, <<"h", "i", "m">>, <<"h", "i", "s">>, <<"i">>,
      <<"i", "f">>, <<"i", "n">>, <<"i", "s">>, <<"i", "t">>, <<"m", "e">>,
      <<"m", "y">>, <<"n", "o">>, <<"n", "o", "t">>, <<"o", "f">>,
      <<"o", "n">>, <<"o", "r">>, <<"s", "o">>, <<"t", "h", "a", "t">>,
      <<"t", "h", "i", "s">>, <<"t", "o">>, <<"u", "p">>, <<"u", "s">>,
      <<"w", "e">>, <<"y", "o", "u">> }

\* The hyphen pre-pass (lines 297-309). The loop changes the entry before a
\* hyphen word in place and notes the hyphen word; afterwards every noted
\* word is taken out with list.remove, which drops the first equal entry.
RECURSIVE MergePass(_, _, _)
MergePass(transcription, i, words_to_delete) ==
    IF i > Len(transcription) THEN <<transcription, words_to_delete>>
    ELSE IF StartsWithHyphen(transcription[i].word)
    THEN MergePass([transcription EXCEPT
                        ![i - 1].word = @ \o transcription[i].word,
                        ![i - 1].end = transcription[i].end],
                   i + 1, Append(words_to_delete, i))
    ELSE MergePass(transcription, i + 1, words_to_delete)

RECURSIVE RemoveFirst(_, _)
RemoveFirst(list, word) ==
    IF list = <<>> THEN <<>>
    ELSE IF Head(list) = word THEN Tail(list)
    ELSE <<Head(list)>> \o RemoveFirst(Tail(list), word)

RECURSIVE RemoveAll(_, _)
RemoveAll(list, words) ==
    IF words = <<>> THEN list
    ELSE RemoveAll(RemoveFirst(list, Head(words)), Tail(words))

MergeHyphens(transcription) ==
    LET pass == MergePass(transcription, 2, <<>>)
        noted == [k \in 1..Len(pass[2]) |-> pass[1][pass[2][k]]]
    IN  RemoveAll(pass[1], noted)

\* fonts = [int(font_max * 0.45), int(font_max * 0.65), font_max]
Fonts(font_size) ==
    LET font_max == font_size * 2
    IN  <<(font_max * 45) \div 100, (font_max * 65) \div 100, font_max>>

\* _new_font_size(word), rand being random.random() in hundredths.
new_font_size_of(word, rand, fonts) ==
    IF without(without(lower(word), "."), ",") \in AVOID_LIST
    THEN IF rand < 60 THEN fonts[1] ELSE fonts[2]
    ELSE IF rand < 40 THEN fonts[1]
         ELSE IF rand < 65 THEN fonts[2] ELSE fonts[3]

\* The value of the n-th call of random.random() of this run.
Rand(rands, n) == rands[(n % Len(rands)) + 1]

\* _place_current_line(line, end_time, lag)
place_current_line(text_clips, line, end_time, lag) ==
    Shown(text_clips, line, Exact(end_time + 3 + lag))

\* One turn of the loop of caption_type 2 (lines 353-392); word_index counts
\* from 1 here. s.drawn is the number of random.random() calls made so far.
EmphasisWord(s, transcription, word_index, box, pos, fonts, rands, duration) ==
    LET n_word == transcription[word_index]
        text == strip(n_word.word)
        start == word_timing_adjusted(n_word)[1]
        p_end == IF word_index > 1 THEN transcription[word_index - 1].end ELSE 0
        width == box[1]
        height == box[2]
        clip0 == create_font_autoresize(s.new_font_size, text, width)
        \* if x + clip.size[0] > width
        wrap == s.x > 0 /\ s.x + clip0.size[1] > width
        y1 == IF wrap THEN s.y + clip0.size[2] + 5 ELSE s.y
        x1 == IF wrap THEN 0 ELSE s.x
        font1 == IF wrap THEN new_font_size_of(text, Rand(rands, s.drawn), fonts)
                 ELSE s.new_font_size
        drawn1 == IF wrap THEN s.drawn + 1 ELSE s.drawn
        clip1 == IF wrap THEN create_font_autoresize(font1, text, width) ELSE clip0
        \* if y + clip.size[1] > height
        too_low == y1 + clip1.size[2] > height
        \* if len(current_line) > 0 and start - p_end > 2
        pause == Len(s.current_line) > 0 /\ ~TimeLeq(start, Exact(p_end + 12))
        lag == IF pause THEN 9 ELSE 0
        reset == s.x > 0 /\ (too_low \/ pause)
        text_clips2 ==
            IF reset
            THEN place_current_line(s.text_clips, s.current_line, p_end, lag)
            ELSE s.text_clips
        line2 == IF reset THEN <<>> ELSE s.current_line
        x2 == IF reset THEN 0 ELSE x1
        y2 == IF reset THEN 0 ELSE y1
        font2 == IF reset THEN new_font_size_of(text, Rand(rands, drawn1), fonts)
                 ELSE font1
        drawn2 == IF reset THEN drawn1 + 1 ELSE drawn1
        clip2 == IF reset THEN create_font_autoresize(font2, text, width) ELSE clip1
        placed == with_start(with_position(clip2, <<x2 + pos[1], y2 + pos[2]>>), start)
        line3 == Append(line2, placed)
        last == word_index = Len(transcription)
        end_time == IF p_end + 6 < duration THEN p_end + 6 ELSE duration
    IN  [x |-> x2 + placed.size[1],
         y |-> y2,
         new_font_size |-> font2,
         drawn |-> drawn2,
         current_line |-> line3,
         text_clips |-> IF last
                        THEN place_current_line(text_clips2, line3, end_time, 0)
                        ELSE text_clips2]

RECURSIVE EmphasisLoop(_, _, _, _, _, _, _, _)
EmphasisLoop(s, transcription, word_index, box, pos, fonts, rands, duration) ==
    IF word_index > Len(transcription) THEN s
    ELSE EmphasisLoop(
             EmphasisWord(s, transcription, word_index, box, pos, fonts,
                          rands, duration),
             transcription, word_index + 1, box, pos, fonts, rands, duration)

\* if caption_type == 2: lines and screens of words of three sizes
\* (lines 296-392).
EmphasisLayout(call) ==
    LET transcription == call.transcription
        video == call.video
        caption_size == call.caption_size
        caption_position == call.caption_position
        font_size == call.font_size
        rands == call.rands
        merged == MergeHyphens(transcription)
        box == IF caption_size # None THEN caption_size
               ELSE IF video.size[1] > video.size[2]
               THEN <<(video.size[1] * 30) \div 100, (video.size[2] * 34) \div 100>>
               ELSE <<(video.size[1] * 40) \div 100, (video.size[2] * 30) \div 100>>
        fonts == Fonts(font_size)
        pos == IF caption_position = None THEN <<220, 60>> ELSE caption_position
    IN  EmphasisLoop([x |-> 0, y |-> 0, new_font_size |-> fonts[2], drawn |-> 0,
                      current_line |-> <<>>, text_clips |-> <<>>],
                     merged, 1, box, pos, fonts, rands, video.duration)

NotSupported == "Not supported caption type"

\* The result of a call: the clips handed on, the words still in the open
\* line or screen, the exception raised, whether the video was written.
Captioned(text_clips, current_line, raised, rendered) ==
    [text_clips |-> text_clips, current_line |-> current_line,
     raised |-> raised, rendered |-> rendered]

\* caption_video(vid_file, csv_file, font, font_size, caption_position,
\* caption_size, caption_type), test being False. The else of line 394
\* belongs to the if of line 296.
caption_video(call) ==
    LET flowing ==
            IF call.caption_type = 1
            THEN FlowingLayout(call.transcription, call.video,
                               call.caption_position, call.font_size)
            ELSE [text_clips |-> <<>>, current_line |-> <<>>]
    IN  IF call.caption_type = 2
        THEN LET s == EmphasisLayout(call)
             IN  Captioned(s.text_clips, s.current_line, "none", TRUE)
        ELSE Captioned(flowing.text_clips, flowing.current_line,
                       NotSupported, FALSE)

\* The videos captioned: 160 x 120 pixels and 2 s long, 120 x 160 pixels and
\* 10 s long.
Videos ==
    { [size |-> <<160, 120>>, duration |-> 12],
      [size |-> <<120, 160>>, duration |-> 60] }

CaptionPositions == {None, <<0, 0>>}
CaptionSizes == {None, <<230, 120>>}
FontSizes == {30}

\* What random.random() returns during a run, in hundredths, call after call.
RandStreams == {<<20>>, <<90, 62>>}

\* The calls of caption_video: a parameter a policy never reads is not
\* varied, and no word ends after the video does.
CaptionCalls ==
    { call \in
        [caption_type : {1}, transcription : Transcriptions, video : Videos,
         caption_position : CaptionPositions, caption_size : {None},
         font_size : FontSizes, rands : {<<20>>}]
        \cup
        [caption_type : {2}, transcription : Transcriptions, video : Videos,
         caption_position : CaptionPositions, caption_size : CaptionSizes,
         font_size : FontSizes, rands : RandStreams]
        \cup
        [caption_type : {0, 3}, transcription : SeqsUpTo({Scenario4Word}, 1),
         video : Videos, caption_position : {None}, caption_size : {None},
         font_size : FontSizes, rands : {<<20>>}] :
      LastEnd(call.transcription) <= call.video.duration }

(* ------------------------- the zoom tab ------------------------------ *)

\* Most regions the bounded zoom tab holds.
MaxRegions == 2
\* Latest playback position, in half seconds.
MaxPos == 3

\* media_player.position(), in milliseconds.
Positions == {k * 500 : k \in 0..MaxPos}

\* The rectangles drawn, as (x, y, width, height); QRectF() is the null one.
Rects == {<<0, 0, 80, 60>>, <<40, 30, 80, 60>>}
NullRect == <<0, 0, 0, 0>>

Resolution == <<160, 120>>

\* format_time(ms): hours, minutes and seconds, the fraction cut off.
format_time(ms) ==
    LET s == ms \div 1000
    IN  <<s \div 3600, (s \div 60) % 60, s % 60>>

\* The text of a row of region_list; region.time is in milliseconds here,
\* where the code keeps timestamp / 1000.0 and multiplies it back.
RegionText(region) == [time |-> format_time(region.time), rect |-> region.rect]

\* list.sort(key=lambda x: x['time']) is stable: a region goes behind those
\* of the same time.
RECURSIVE InsertByTime(_, _)
InsertByTime(regions, region) ==
    IF regions = <<>> THEN <<region>>
    ELSE IF Head(regions).time <= region.time
    THEN <<Head(regions)>> \o InsertByTime(Tail(regions), region)
    ELSE <<region>> \o regions

\* The list is left in the order of the additions.
NotSortedByTime(regions) == regions

RECURSIVE SortByTimeFrom(_, _)
SortByTimeFrom(done, regions) ==
    IF regions = <<>> THEN done
    ELSE SortByTimeFrom(InsertByTime(done, Head(regions)), Tail(regions))

SortByTime(regions) == SortByTimeFrom(<<>>, regions)

\* Every row shows the text of the region appended last.
SameTextRows(regions) ==
    [k \in 1..Len(regions) |-> RegionText(regions[Len(regions)])]

\* region_list.clear() and one addItem for every region.
Rows(regions) == [k \in 1..Len(regions) |-> RegionText(regions[k])]

\* list.pop(row) and QListWidget.takeItem(row), rows counted from 1 here.
Pop(list, row) == SubSeq(list, 1, row - 1) \o SubSeq(list, row + 1, Len(list))

\* The scan of update_position: the last region that is not after the
\* position, looking no further than the first region that is.
RECURSIVE FoundRegion(_, _, _)
FoundRegion(regions, position, found_region) ==
    IF regions = <<>> THEN found_region
    ELSE IF Head(regions).time <= position
    THEN FoundRegion(Tail(regions), position, <<Head(regions)>>)
    ELSE found_region

ActiveRect(regions, position) ==
    LET found_region == FoundRegion(regions, position, <<>>)
    IN  IF found_region # <<>> THEN found_region[1].rect ELSE NullRect

(* ------------------------- the remove-chunks tab --------------------- *)

\* Most chunks the bounded tab holds.
MaxTabChunks == 2

\* range_slider.value(): two handles, in milliseconds, each at 0 s, 0.5 s
\* or 1 s.
SliderValues == {0, 500, 1000}

\* chunk_text = f"{format_time(start)} -> {format_time(end)}"
ChunkText(start, end) == [from |-> format_time(start), to |-> format_time(end)]

\* (start / 1000.0, end / 1000.0), in tenths of a second.
ChunkOf(start, end) == <<start \div 100, end \div 100>>

SelectedVideos == {"", "a.mp4"}

\* in_path = tab.video_map[selected_video]
TabInPath(name) == CASE name = "a.mp4" -> "videos/cuts/a.mp4"

\* out_path = os.path.join(CUTS_DIR, f"manualcut_{selected_video}")
TabOutPath(name) == CASE name = "a.mp4" -> "videos/cuts/manualcut_a.mp4"

(* ------------------------- build_filter_complex ---------------------- *)

\* How high a glyph of the font is drawn, in tenths of the font size.
GlyphHeightTenths(ch) ==
    CASE ch = " " -> 0
      [] ch = "-" -> 1
      [] ch \in {"b", "d", "i"} -> 7
      [] OTHER -> 5

RECURSIVE TextHeightTenths(_)
TextHeightTenths(text) ==
    IF text = <<>> THEN 0
    ELSE LET rest == TextHeightTenths(Tail(text))
             first == GlyphHeightTenths(Head(text))
         IN  IF first > rest THEN first ELSE rest

\* The measurement without the except branch: the size PIL would measure,
\* whether it can or not.
get_text_dimensions_NoFallback(text, font_size, fontFails) ==
    <<TextWidth(text, font_size * 10),
      (TextHeightTenths(text) * font_size) \div 10>>

\* get_text_dimensions(text, font_path, font_size): the bounding box PIL
\* measures, or len(text) * font_size * 0.6 by font_size when PIL fails.
get_text_dimensions(text, font_size, fontFails) ==
    IF fontFails
    THEN <<(Len(text) * font_size * 6) \div 10, font_size>>
    ELSE <<TextWidth(text, font_size * 10),
           (TextHeightTenths(text) * font_size) \div 10>>

\* The caption box of a video: (box_width, box_height, x_pos, y_pos).
CaptionBox(video_width, video_height) ==
    IF video_height > video_width
    THEN LET box_width == (video_width * 9) \div 10
         IN  <<box_width, (video_height * 4) \div 10,
               (video_width - box_width) \div 2, (video_height * 55) \div 100>>
    ELSE LET box_height == (video_height * 8) \div 10
         IN  <<(video_width * 4) \div 10, box_height,
               (video_width * 5) \div 100, (video_height - box_height) \div 2>>

\* Every word of the screen is enabled until the end of the screen's first
\* word.
flush_line_buffer_FirstEnd(buffer, end_time) ==
    [k \in 1..Len(buffer) |->
        [text |-> buffer[k].text, x |-> buffer[k].x, y |-> buffer[k].y,
         from |-> buffer[k].start, until |-> buffer[1].end]]

\* flush_line_buffer(buffer, end_time): one drawtext filter for every word,
\* enabled between the word's start and end_time.
flush_line_buffer(buffer, end_time) ==
    [k \in 1..Len(buffer) |->
        [text |-> buffer[k].text, x |-> buffer[k].x, y |-> buffer[k].y,
         from |-> buffer[k].start, until |-> end_time]]

\* The loop body without the check of the box height: a screen ends on a long
\* pause only.
DrawWordNoOverflowCheck(s, transcription, i, box, fontFails) ==
    LET word_data == transcription[i]
        word_text == strip(word_data.word)
        start_time == word_data.start
        dim == get_text_dimensions(word_text, 60, fontFails)
        w == dim[1]
        h == dim[2]
        space_width == get_text_dimensions(<<" ">>, 60, fontFails)[1]
        wrap == s.x > 0 /\ s.x + w > box[1]
        y1 == IF wrap THEN s.y + h + 10 ELSE s.y
        x1 == IF wrap THEN 0 ELSE s.x
        flush == /\ i > 1
                 /\ start_time - transcription[i - 1].end > 12
                 /\ s.line_buffer # <<>>
        line_end_time == s.line_buffer[Len(s.line_buffer)].end
        x2 == IF flush THEN 0 ELSE x1
        y2 == IF flush THEN 0 ELSE y1
    IN  [x |-> x2 + w + space_width,
         y |-> y2,
         line_buffer |->
             Append(IF flush THEN <<>> ELSE s.line_buffer,
                    [text |-> word_text, start |-> start_time,
                     end |-> word_data.end, x |-> box[3] + x2, y |-> box[4] + y2]),
         drawtext_filters |->
             IF flush
             THEN s.drawtext_filters \o flush_line_buffer(s.line_buffer, line_end_time)
             ELSE s.drawtext_filters]

\* One turn of the loop of lines 201-242; i counts from 1 here. The texts of
\* the model hold none of the characters that line 204 escapes.
DrawWord(s, transcription, i, box, fontFails) ==
    LET word_data == transcription[i]
        word_text == strip(word_data.word)
        start_time == word_data.start
        dim == get_text_dimensions(word_text, 60, fontFails)
        w == dim[1]
        h == dim[2]
        space_width == get_text_dimensions(<<" ">>, 60, fontFails)[1]
        wrap == s.x > 0 /\ s.x + w > box[1]
        y1 == IF wrap THEN s.y + h + 10 ELSE s.y
        x1 == IF wrap THEN 0 ELSE s.x
        break_condition ==
            \/ y1 + h > box[2]
            \/ i > 1 /\ start_time - transcription[i - 1].end > 12
        flush == break_condition /\ s.line_buffer # <<>>
        line_end_time == s.line_buffer[Len(s.line_buffer)].end
        x2 == IF flush THEN 0 ELSE x1
        y2 == IF flush THEN 0 ELSE y1
    IN  [x |-> x2 + w + space_width,
         y |-> y2,
         line_buffer |->
             Append(IF flush THEN <<>> ELSE s.line_buffer,
                    [text |-> word_text, start |-> start_time,
                     end |-> word_data.end, x |-> box[3] + x2, y |-> box[4] + y2]),
         drawtext_filters |->
             IF flush
             THEN s.drawtext_filters \o flush_line_buffer(s.line_buffer, line_end_time)
             ELSE s.drawtext_filters]

RECURSIVE DrawLoop(_, _, _, _, _)
DrawLoop(s, transcription, i, box, fontFails) ==
    IF i > Len(transcription) THEN s
    ELSE DrawLoop(DrawWord(s, transcription, i, box, fontFails),
                  transcription, i + 1, box, fontFails)

\* build_filter_complex(video_width, video_height, video_duration): the
\* filters joined, "null" when there are none; line_buffer is what the final
\* flush was given.
build_filter_complex(call) ==
    LET box == CaptionBox(call.video.size[1], call.video.size[2])
        s == DrawLoop([x |-> 0, y |-> 0, line_buffer |-> <<>>,
                       drawtext_filters |-> <<>>],
                      call.transcription, 1, box, call.fontFails)
        line_end_time == Min(LastEnd(s.line_buffer) + 12, call.video.duration)
        drawtext_filters ==
            IF s.line_buffer # <<>>
            THEN s.drawtext_filters \o flush_line_buffer(s.line_buffer, line_end_time)
            ELSE s.drawtext_filters
    IN  [drawtext_filters |-> drawtext_filters,
         line_buffer |-> s.line_buffer,
         filter_complex |-> IF drawtext_filters = <<>> THEN "null" ELSE "joined"]

\* The runs of the captioning thread: the transcription it was given, the
\* video ffprobe describes, and whether the font can be loaded. No word
\* starts after the video ends; the last may end after it.
DrawCalls ==
    { call \in [transcription : Transcriptions, video : Videos,
                fontFails : BOOLEAN] :
        \A k \in 1..Len(call.transcription) :
            call.transcription[k].start <= call.video.duration }

(* --------------------- _create_font_autoresize ----------------------- *)

\* Sizes the layouts ask for: the three of font_size 30, and a small one.
FitSizes == {10, 27, 39, 60}

\* Maximum widths: below, at and above the margins' 26, and wider.
FitWidths == {20, 26, 27, 30, 40, 48, 62, 63, 100, 164, 165, 230, 9999999}

FitCalls == [size : FitSizes, word : {strip(text) : text \in CapTexts},
             max_width : FitWidths]

\* for i in range(10, -1, -1): the modifiers tried, in tenths, up to the one
\* whose clip is returned.
RECURSIVE TriedFrom(_, _, _, _)
TriedFrom(i, size, word, max_width) ==
    IF TextClip(word, size * i, size, 26, 14).size[1] < max_width \/ i = 0
    THEN <<i>>
    ELSE <<i>> \o TriedFrom(i - 1, size, word, max_width)

(* ------------------ the download tab and its worker ------------------ *)

\* Most runs of the refresh targets that are counted; later ones leave the
\* count where it is.
MaxRefreshes == 2

\* What the URL field holds when Download is clicked.
Urls == {"", "https://youtu.be/x"}

\* filename_input.text() or None
Filenames == {None, <<"clip">>}

\* What the download meets: whether "videos" exists, whether makedirs
\* fails, whether yt-dlp fails.
DownloadEnvs == [exists : BOOLEAN, makedirsFails : BOOLEAN, ydlFails : BOOLEAN]

\* download_video(url, output_path, progress_hook, filename): "raised" when
\* os.makedirs raises, "False" when yt-dlp raises, "True" otherwise.
download_video(url, filename, env) ==
    IF ~env.exists /\ env.makedirsFails THEN "raised"
    ELSE IF env.ydlFails THEN "False"
    ELSE "True"

\* The dictionaries yt-dlp hands to progress_hook.
ProgressDicts ==
    [status : {"downloading"}, total_bytes : {0, 4}, downloaded_bytes : {0, 1, 2}]
        \cup [status : {"finished", "error"}, total_bytes : {0},
              downloaded_bytes : {0}]

\* DownloadWorker.progress_hook(d): the value emitted, None when none is.
progress_hook(d) ==
    IF d.status = "downloading"
    THEN IF d.total_bytes # 0 /\ d.downloaded_bytes # 0
         THEN <<(d.downloaded_bytes * 100) \div d.total_bytes>>
         ELSE None
    ELSE IF d.status = "finished" THEN <<100>>
    ELSE None

(* --------------------------- process_zoom_pan ------------------------ *)

\* get_video_duration(input_path) in milliseconds; 0 when ffprobe fails.
PanDurations == {0, 1000, 2000}

PanOutputPaths == {"a.mp4", "a_zoom.mp4"}

\* What a call meets: the duration ffprobe reports, whether cp fails,
\* whether ffmpeg fails.
PanEnvs == [duration : PanDurations, cpFails : BOOLEAN, ffmpegFails : BOOLEAN]

\* The trim filter and the atrim filter of clip number num_clips; rect is
\* None for the un-zoomed clip.
ClipFilters(start, end, rect, num_clips) ==
    << [filter |-> "trim", start |-> start, end |-> end, rect |-> rect,
        label |-> <<"v", num_clips>>],
       [filter |-> "atrim", start |-> start, end |-> end, rect |-> None,
        label |-> <<"a", num_clips>>] >>

\* The three accumulators after one more clip.
WithClip(acc, start, end, rect) ==
    [filter_complex |->
         acc.filter_complex \o ClipFilters(start, end, rect, acc.num_clips),
     clip_streams |->
         acc.clip_streams \o << <<"v", acc.num_clips>>, <<"a", acc.num_clips>> >>,
     num_clips |-> acc.num_clips + 1]

\* if not regions or regions[0]['time'] > 0: the un-zoomed clip before the
\* first region.
InitialClip(acc, regions, video_duration) ==
    IF regions = <<>> \/ regions[1].time > 0
    THEN WithClip(acc, 0,
                  IF regions # <<>> THEN regions[1].time ELSE video_duration,
                  None)
    ELSE acc

\* The loop over the regions with every region given a clip, also one that
\* ends where it starts.
RECURSIVE RegionClipsNoSkip(_, _, _, _)
RegionClipsNoSkip(acc, regions, i, video_duration) ==
    IF i > Len(regions) THEN acc
    ELSE LET start_time == regions[i].time
             end_time == IF i + 1 <= Len(regions) THEN regions[i + 1].time
                         ELSE video_duration
         IN  RegionClipsNoSkip(
                 WithClip(acc, start_time, end_time, regions[i].rect),
                 regions, i + 1, video_duration)

\* for i, region in enumerate(regions); i counts from 1 here.
RECURSIVE RegionClips(_, _, _, _)
RegionClips(acc, regions, i, video_duration) ==
    IF i > Len(regions) THEN acc
    ELSE LET start_time == regions[i].time
             end_time == IF i + 1 <= Len(regions) THEN regions[i + 1].time
                         ELSE video_duration
         IN  RegionClips(
                 IF end_time <= start_time THEN acc
                 ELSE WithClip(acc, start_time, end_time, regions[i].rect),
                 regions, i + 1, video_duration)

\* What a call leaves: the value returned ("raised" for an exception), the
\* commands run, the sorted regions, the clip filters, the stream labels
\* handed to concat and its n.
Panned(result, commands, regions, acc) ==
    [result |-> result, commands |-> commands, regions |-> regions,
     filter_complex |-> acc.filter_complex, clip_streams |-> acc.clip_streams,
     concat_n |-> acc.num_clips]

NoClips == [filter_complex |-> <<>>, clip_streams |-> <<>>, num_clips |-> 0]

\* process_zoom_pan(input_path, output_path, zoom_regions)
process_zoom_pan(input_path, output_path, zoom_regions, env) ==
    IF zoom_regions = <<>>
    THEN IF input_path # output_path
         THEN Panned(IF env.cpFails THEN "raised" ELSE "True",
                     <<"cp">>, <<>>, NoClips)
         ELSE Panned("True", <<>>, <<>>, NoClips)
    ELSE IF env.duration = 0
    THEN Panned("False", <<"ffprobe">>, <<>>, NoClips)
    ELSE LET regions == SortByTime(zoom_regions)
             acc == RegionClips(InitialClip(NoClips, regions, env.duration),
                                regions, 1, env.duration)
         IN  Panned(IF env.ffmpegFails THEN "False" ELSE "True",
                    <<"ffprobe", "ffmpeg">>, regions, acc)

PanCalls ==
    [input_path : {"a.mp4"}, output_path : PanOutputPaths,
     zoom_regions : SeqsUpTo([time : Positions, rect : Rects], MaxRegions),
     env : PanEnvs]

(* ---------------------- the processing workers ----------------------- *)

\* The tabs that process a video on a worker thread of their own.
WorkerTabs == {"remove_chunks", "remove_silence", "zoom", "extras"}

\* How the operation a worker calls ends: it returns True, returns False,
\* or raises.
Outcomes == {"True", "False", "raised"}

\* status_label as the tab is built.
InitialLabel(tab) ==
    IF tab = "remove_silence" THEN "Ready to process video." ELSE "Ready."

Signal(success, message) == [success |-> success, message |-> message]

\* A run() whose except branch emits nothing.
run_NoExcept(outcome) ==
    CASE outcome = "True" -> <<Signal(TRUE, "Processing finished.")>>
      [] outcome = "False" -> <<Signal(FALSE, "Processing failed.")>>
      [] outcome = "raised" -> <<>>

\* RemoveChunksWorker.run, SilenceRemoverWorker.run, ZoomWorker.run and
\* ExtrasWorker.run: the finished signals emitted, in order.
run(outcome) ==
    CASE outcome = "True" -> <<Signal(TRUE, "Processing finished.")>>
      [] outcome = "False" -> <<Signal(FALSE, "Processing failed.")>>
      [] outcome = "raised" -> <<Signal(FALSE, "str(e)")>>

(* ------------------------------- the state --------------------------- *)

VARIABLES
    pc,                \* "idle", or "returned" once a call has ended
    fn,                \* the function of the last call
    input_path,
    output_path,
    padding,           \* remove_silence's padding
    output,            \* the detector's log, once the detect command ran
    parsed,            \* whether remove_silence reached Step 2
    silence_starts,
    silence_ends,
    pairs,             \* what the loop of Step 3 iterates over
    chunks_to_remove,  \* remove_chunks' argument, remove_silence's local
    select_filter,     \* the clips joined by "+", NoFilter when none built
    commands,          \* the subprocesses the call ran, with their success
    result             \* "none", "True", "False" or the exception raised

\* The arguments, locals and result of a remove_chunks or remove_silence call.
coreVars ==
    <<pc, fn, input_path, output_path, padding, output, parsed,
      silence_starts, silence_ends, pairs, chunks_to_remove, select_filter,
      commands, result>>

VARIABLES
    norm_word,         \* the word handed to _word_timing_adjusted, NoWord before
    norm_result        \* the (start, end) it returned, <<>> before

normVars == <<norm_word, norm_result>>

NormIdle ==
    /\ norm_word = NoWord
    /\ norm_result = <<>>

VARIABLES
    cap_call,          \* the arguments of the caption_video call, None before
    cap_out            \* what the call produced, None before

capVars == <<cap_call, cap_out>>

CapIdle ==
    /\ cap_call = None
    /\ cap_out = None

VARIABLES
    zoom_regions,      \* tab.zoom_regions
    region_list,       \* the rows of the QListWidget region_list
    position,          \* the media player's position, in milliseconds
    active_rect,       \* the rectangle the video widget shows as active
    resolution         \* tab.current_video_resolution, None if unknown

zoomVars == <<zoom_regions, region_list, position, active_rect, resolution>>

ZoomIdle ==
    /\ zoom_regions = <<>>
    /\ region_list = <<>>
    /\ position = 0
    /\ active_rect = NullRect
    /\ resolution = None

VARIABLES
    tab_chunks,        \* the list tab.chunks_to_remove, which the worker shares
    chunk_list,        \* the rows of the QListWidget chunk_list
    selected_video,    \* video_combo.currentText()
    process_enabled,   \* process_button.isEnabled()
    worker_pc,         \* "none", "started", "building", "emitted"
    worker_given,      \* the worker's arguments as they were at its start
    worker_outcome     \* what remove_chunks did in the worker, None before

tabVars ==
    <<tab_chunks, chunk_list, selected_video, process_enabled, worker_pc,
      worker_given, worker_outcome>>

TabIdle ==
    /\ tab_chunks = <<>>
    /\ chunk_list = <<>>
    /\ selected_video = ""
    /\ process_enabled = TRUE
    /\ worker_pc = "none"
    /\ worker_given = None
    /\ worker_outcome = None

VARIABLES
    draw_call,         \* the inputs of the build_filter_complex call, None before
    draw_out           \* what the call returned, None before

drawVars == <<draw_call, draw_out>>

DrawIdle ==
    /\ draw_call = None
    /\ draw_out = None

\* One call of _create_font_autoresize.
VARIABLES
    fit_call,          \* the arguments, None before
    fit_out            \* the clip returned and the modifiers tried, None before

fitVars == <<fit_call, fit_out>>

FitIdle ==
    /\ fit_call = None
    /\ fit_out = None

\* The download tab and its worker thread.
VARIABLES
    download_button,   \* download_button.isEnabled()
    dl_thread,         \* tab.thread: [url, filename], None before the first
    dl_pc,             \* "none", "running", or "emitted" once finished is sent
    dl_returned,       \* what download_video did in this run, "none" before
    dl_finished,       \* the finished signal: [success, message], None before
    progress_bar,      \* progress_bar.value()
    status_label,      \* status_label.text()
    message_box,       \* the last message box shown, "none" before
    refreshes          \* how often the refresh targets were run

downloadVars == <<download_button, dl_thread, dl_pc, dl_returned, dl_finished,
                  progress_bar, status_label, message_box, refreshes>>

DownloadIdle ==
    /\ download_button = TRUE
    /\ dl_thread = None
    /\ dl_pc = "none"
    /\ dl_returned = "none"
    /\ dl_finished = None
    /\ progress_bar = 0
    /\ status_label = "Enter a URL and click Download."
    /\ message_box = "none"
    /\ refreshes = 0

\* One call of process_zoom_pan.
VARIABLES
    pan_call,          \* the arguments and what the call meets, None before
    pan_out            \* what the call left, None before

panVars == <<pan_call, pan_out>>

PanIdle ==
    /\ pan_call = None
    /\ pan_out = None

\* The process button and the worker threads of every processing tab.
VARIABLES
    buttons,           \* tab -> process_button.isEnabled()
    labels,            \* tab -> status_label.text()
    running,           \* tab -> the number of its workers inside run()
    emitted,           \* tab -> the finished signals its latest worker emitted
    pending            \* tab -> the finished signals not yet delivered

workersVars == <<buttons, labels, running, emitted, pending>>

WorkersIdle ==
    /\ buttons = [tab \in WorkerTabs |-> TRUE]
    /\ labels = [tab \in WorkerTabs |-> InitialLabel(tab)]
    /\ running = [tab \in WorkerTabs |-> 0]
    /\ emitted = [tab \in WorkerTabs |-> 0]
    /\ pending = [tab \in WorkerTabs |-> <<>>]

vars == <<coreVars, normVars, capVars, zoomVars, tabVars, drawVars, fitVars, downloadVars, panVars, workersVars>>

\* What an operation of one part leaves alone.
otherThanCore == <<normVars, capVars, zoomVars, tabVars, drawVars, fitVars, downloadVars, panVars, workersVars>>
otherThanNorm == <<coreVars, capVars, zoomVars, tabVars, drawVars, fitVars, downloadVars, panVars, workersVars>>
otherThanCap == <<coreVars, normVars, zoomVars, tabVars, drawVars, fitVars, downloadVars, panVars, workersVars>>
otherThanZoom == <<coreVars, normVars, capVars, tabVars, drawVars, fitVars, downloadVars, panVars, workersVars>>
otherThanTab == <<coreVars, normVars, capVars, zoomVars, drawVars, fitVars, downloadVars, panVars, workersVars>>
otherThanDraw == <<coreVars, normVars, capVars, zoomVars, tabVars, fitVars, downloadVars, panVars, workersVars>>
otherThanFit == <<coreVars, normVars, capVars, zoomVars, tabVars, drawVars, downloadVars, panVars, workersVars>>
otherThanDownload == <<coreVars, normVars, capVars, zoomVars, tabVars, drawVars, fitVars, panVars, workersVars>>
otherThanPan == <<coreVars, normVars, capVars, zoomVars, tabVars, drawVars, fitVars, downloadVars, workersVars>>
otherThanWorkers == <<coreVars, normVars, capVars, zoomVars, tabVars, drawVars, fitVars, downloadVars, panVars>>

Init ==
    /\ pc = "idle"
    /\ fn = "none"
    /\ input_path = ""
    /\ output_path = ""
    /\ padding = 0
    /\ output = <<>>
    /\ parsed = FALSE
    /\ silence_starts = <<>>
    /\ silence_ends = <<>>
    /\ pairs = <<>>
    /\ chunks_to_remove = <<>>
    /\ select_filter = NoFilter
    /\ commands = <<>>
    /\ result = "none"
    /\ NormIdle
    /\ CapIdle
    /\ ZoomIdle
    /\ TabIdle
    /\ DrawIdle
    /\ FitIdle
    /\ DownloadIdle
    /\ PanIdle
    /\ WorkersIdle

\* A call of remove_chunks(input_path, output_path, chunks_to_remove).
RemoveChunks ==
    /\ pc = "idle"
    /\ \E inp \in InputPaths, out \in OutputPaths, chunks \in ChunkLists,
          env \in ChunkEnvs :
          LET r == remove_chunks(inp, out, chunks, env)
          IN  /\ pc' = "returned"
              /\ fn' = "remove_chunks"
              /\ input_path' = inp
              /\ output_path' = out
              /\ chunks_to_remove' = chunks
              /\ select_filter' = r.select_filter
              /\ commands' = r.commands
              /\ result' = r.result
              /\ UNCHANGED <<padding, output, parsed, silence_starts,
                             silence_ends, pairs>>
              /\ UNCHANGED otherThanCore

\* A call of remove_silence(input_path, output_path, padding=pad).
RemoveSilence ==
    /\ pc = "idle"
    /\ \E inp \in InputPaths, out \in OutputPaths, pad \in Paddings,
          env \in SilenceEnvs :
          LET r == remove_silence(inp, out, pad, env)
              reached == ~env.makedirsFails /\ ~env.detectFails
              loc == IF reached THEN Parsed(env, pad) ELSE NotParsed
          IN  /\ pc' = "returned"
              /\ fn' = "remove_silence"
              /\ input_path' = inp
              /\ output_path' = out
              /\ padding' = pad
              /\ output' = env.output
              /\ parsed' = reached
              /\ silence_starts' = loc.silence_starts
              /\ silence_ends' = loc.silence_ends
              /\ pairs' = loc.pairs
              /\ chunks_to_remove' = loc.chunks_to_remove
              /\ select_filter' = r.select_filter
              /\ commands' = r.commands
              /\ result' = r.result
              /\ UNCHANGED otherThanCore

\* The caller takes the result; the next call starts afresh.
Return ==
    /\ pc = "returned"
    /\ pc' = "idle"
    /\ fn' = "none"
    /\ input_path' = ""
    /\ output_path' = ""
    /\ padding' = 0
    /\ output' = <<>>
    /\ parsed' = FALSE
    /\ silence_starts' = <<>>
    /\ silence_ends' = <<>>
    /\ pairs' = <<>>
    /\ chunks_to_remove' = <<>>
    /\ select_filter' = NoFilter
    /\ commands' = <<>>
    /\ result' = "none"
    /\ UNCHANGED otherThanCore

Next == RemoveChunks \/ RemoveSilence \/ Return

Spec == Init /\ [][Next]_vars

(* ---------------------- the timing normalizer, called ---------------- *)

\* A call of _word_timing_adjusted(word).
WordTimingAdjusted ==
    /\ norm_result = <<>>
    /\ \E word \in NormalizerWords :
          /\ norm_word' = word
          /\ norm_result' = word_timing_adjusted(word)
    /\ UNCHANGED otherThanNorm

\* The caller takes the pair; the next word follows.
NormReturn ==
    /\ norm_result # <<>>
    /\ norm_word' = NoWord
    /\ norm_result' = <<>>
    /\ UNCHANGED otherThanNorm

NextNormalize == WordTimingAdjusted \/ NormReturn

SpecNormalize == Init /\ [][NextNormalize]_vars

(* ---------------------- caption_video, called ------------------------ *)

\* A call of caption_video, up to its return or its exception.
CaptionVideo ==
    /\ cap_out = None
    /\ \E call \in CaptionCalls :
          /\ cap_call' = call
          /\ cap_out' = caption_video(call)
    /\ UNCHANGED otherThanCap

\* The caller has the outcome; the next call follows.
CapReturn ==
    /\ cap_out # None
    /\ cap_call' = None
    /\ cap_out' = None
    /\ UNCHANGED otherThanCap

NextCaption == CaptionVideo \/ CapReturn

SpecCaption == Init /\ [][NextCaption]_vars

(* ====================== the claims of the specification ============== *)

\* A call that built a select expression and handed it to the executor.
Built == pc = "returned" /\ select_filter # NoFilter

Returned(f) == pc = "returned" /\ fn = f

\* Every interval satisfies 0 <= start < end.
ValidChunks(chunks) == \A c \in Range(chunks) : 0 <= c[1] /\ c[1] < c[2]

\* The executor's reading of a clip at time t2/2 (times on a half-tenth grid,
\* so that the inside of a one-tenth interval has a point): between(t,lo,hi)
\* is lo <= t <= hi, gte(t,lo) is t >= lo.
ClipSelects(clip, t2) ==
    IF clip.op = "between" THEN 2 * clip.lo <= t2 /\ t2 <= 2 * clip.hi
    ELSE t2 >= 2 * clip.lo

\* The "+" of the clips selects the time when one of them does.
Selects(filter, t2) == \E i \in 1..Len(filter) : ClipSelects(filter[i], t2)

\* C1: the select expression built from a list of valid removal intervals
\* never selects a time strictly inside one of the removal intervals.
C1_NoSelectionInsideRemoval ==
    (Built /\ ValidChunks(chunks_to_remove)) =>
        \A c \in Range(chunks_to_remove) :
            \A t2 \in (2 * c[1] + 1)..(2 * c[2] - 1) :
                ~Selects(select_filter, t2)

\* C2: every bounded keep-segment between(t,lo,hi) of a built select
\* expression has lo < hi.
C2_KeepSegmentsNonEmpty ==
    (Built /\ ValidChunks(chunks_to_remove)) =>
        \A i \in 1..Len(select_filter) :
            select_filter[i].op = "between" =>
                select_filter[i].lo < select_filter[i].hi

\* C3: the removals (2,4), (4,6) compile to exactly the keep-segments [0,2)
\* and the trailing [6,+inf).
C3_Scenario1TwoSegments ==
    (Returned("remove_chunks") /\ chunks_to_remove = Scenario1.chunks
        /\ result \in {"True", "False"}) =>
        select_filter = <<Between(0, 20), Gte(60)>>

\* The removals are pairwise disjoint as half-open intervals [start, end).
NonOverlapping(chunks) ==
    \A i, j \in 1..Len(chunks) :
        i # j => (chunks[i][2] <= chunks[j][1] \/ chunks[j][2] <= chunks[i][1])

\* The media durations of the coverage property.
Durations == (1..(MaxT + MaxDurExtra)) \cup {Scenario1.duration}

\* The keep-segment of a clip, as the specification reads it: [lo, hi) for
\* between(t,lo,hi), and [lo, duration] for the trailing gte(t,lo).
InKeepSegment(clip, t, duration) ==
    IF clip.op = "between" THEN clip.lo <= t /\ t < clip.hi
    ELSE clip.lo <= t /\ t <= duration

InRemoval(c, t) == c[1] <= t /\ t < c[2]

\* How many keep-segments and removals hold the time t.
Holders(filter, chunks, t, duration) ==
    Cardinality({i \in 1..Len(filter) : InKeepSegment(filter[i], t, duration)})
        + Cardinality({j \in 1..Len(chunks) : InRemoval(chunks[j], t)})

\* C4: for pairwise non-overlapping valid removals inside [0, duration], every
\* time of [0, duration] lies in exactly one keep-segment or removal; the
\* keep-segments are half-open, the trailing one is cut at the duration.
C4_Coverage ==
    (Built /\ ValidChunks(chunks_to_remove) /\ NonOverlapping(chunks_to_remove)) =>
        \A d \in Durations :
            (\A c \in Range(chunks_to_remove) : c[2] <= d) =>
                \A t \in 0..d : Holders(select_filter, chunks_to_remove, t, d) = 1

\* An unsorted list of two separated removals, the first of them not at 0.
C4_Witness ==
    /\ Returned("remove_chunks")
    /\ chunks_to_remove = <<<<2, 3>>, <<0, 1>>>>
    /\ select_filter = <<Between(0, 0), Between(1, 2), Gte(3)>>

\* The call neither built a select expression nor ran the filter command,
\* and ran at most the copy, none when the two paths are equal.
PassThrough ==
    /\ select_filter = NoFilter
    /\ \A i \in 1..Len(commands) : commands[i].cmd # "ffmpeg_select"
    /\ Cardinality({i \in 1..Len(commands) : commands[i].cmd = "cp"}) <= 1
    /\ input_path = output_path =>
           \A i \in 1..Len(commands) : commands[i].cmd # "cp"

\* The call ended in True, or in the exception of the step that failed:
\* creating the output directory before any command, or the copy.
SuccessUnlessStepFailed ==
    /\ result \in {"True", "OSError", "CalledProcessError"}
    /\ result = "OSError" => commands = <<>>
    /\ result = "CalledProcessError" <=>
           (commands # <<>> /\ commands[Len(commands)] = Cmd("cp", FALSE))

C6_InvalidIntervalRejected ==
    (Returned("remove_chunks") /\ result # "OSError"
        /\ \E c \in Range(chunks_to_remove) : c[2] <= c[1]) =>
        (result = "ValidationError" /\ select_filter = NoFilter)

\* The silences the adapter matched: the i-th captured start with the i-th
\* captured end, as far as both exist.
Matched == 1..Min(Len(silence_starts), Len(silence_ends))

SurvivesPadding(i) == silence_ends[i] - silence_starts[i] > 2 * padding

Candidate(i) == <<silence_starts[i] + padding, silence_ends[i] - padding>>

\* C7: a matched silence with end - start <= 2 * padding adds no removal; the
\* log of scenario 2 with padding 0.5 yields no candidate.
C7_PaddingSafety ==
    (Returned("remove_silence") /\ parsed) =>
        /\ \A i \in Matched :
               ~SurvivesPadding(i) => Candidate(i) \notin Range(chunks_to_remove)
        /\ (output = Scenario2Log /\ padding = DefaultPadding) =>
               chunks_to_remove = <<>>

\* A silence whose length is exactly twice a positive padding: no candidate.
C7_Witness ==
    /\ Returned("remove_silence") /\ parsed
    /\ padding > 0
    /\ pairs # <<>>
    /\ \A i \in Matched : silence_ends[i] - silence_starts[i] = 2 * padding
    /\ chunks_to_remove = <<>>
    /\ result = "True"

\* C8: the candidates are exactly (start + padding, end - padding) of the
\* matched silences with end - start > 2 * padding, in their order, and each
\* candidate has start < end; scenario 3 yields the single candidate (1.5, 3.5).
C8_PaddedCandidates ==
    (Returned("remove_silence") /\ parsed) =>
        /\ Len(chunks_to_remove) = Cardinality({i \in Matched : SurvivesPadding(i)})
        /\ \A i \in Matched :
               SurvivesPadding(i) =>
                   LET k == Cardinality({j \in 1..i : SurvivesPadding(j)})
                   IN  chunks_to_remove[k] = Candidate(i)
        /\ \A c \in Range(chunks_to_remove) : c[1] < c[2]
        /\ (output = Scenario3Log /\ padding = DefaultPadding) =>
               chunks_to_remove = <<<<15, 35>>>>

\* Scenario 3: one candidate, cut out by the filter command.
C8_Witness ==
    /\ Returned("remove_silence") /\ parsed
    /\ output = Scenario3Log
    /\ padding = DefaultPadding
    /\ chunks_to_remove = <<<<15, 35>>>>
    /\ select_filter = <<Between(0, 15), Gte(35)>>

\* The positions of the log's markers of a kind, and the i-th of them.
MarkerPositions(kind) == {k \in 1..Len(output) : output[k].kind = kind}

NthMarker(kind, i) ==
    LET k == CHOOSE k \in MarkerPositions(kind) :
                 Cardinality({j \in MarkerPositions(kind) : j <= k}) = i
    IN  output[k].t

\* The call raised nothing but, possibly, the error of a failed copy.
NoErrorButCopy ==
    result \in {"True", "False"}
        \/ (result = "CalledProcessError"
                /\ commands[Len(commands)] = Cmd("cp", FALSE))

\* C9: the pairs are the i-th silence_start with the i-th silence_end of the
\* log, for i up to the smaller of the two counts; surplus markers are ignored
\* and the pairing raises no error.
C9_PositionalPairing ==
    (Returned("remove_silence") /\ parsed) =>
        LET nStarts == Cardinality(MarkerPositions("silence_start"))
            nEnds == Cardinality(MarkerPositions("silence_end"))
        IN  /\ Len(pairs) = Min(nStarts, nEnds)
            /\ \A i \in 1..Len(pairs) :
                   pairs[i] = <<NthMarker("silence_start", i),
                                NthMarker("silence_end", i)>>
            /\ NoErrorButCopy

\* More starts than ends, in a log that also holds unmatched text.
C9_Witness ==
    /\ Returned("remove_silence") /\ parsed
    /\ Len(silence_starts) = 2
    /\ Len(silence_ends) = 1
    /\ Len(pairs) = 1
    /\ result = "True"

\* The log has no silence_start, or no matched silence survives the padding.
NothingToCut == silence_starts = <<>> \/ \A i \in Matched : ~SurvivesPadding(i)

NormReturned == norm_result # <<>>

\* end - start > log_8(character count), in sixths of a second.
DurationOverMax(word) ==
    /\ word.end - word.start > 0
    /\ Pow2(word.end - word.start) > Len(word.word) * Len(word.word)

AdjustedStart == norm_result[1]
AdjustedEnd == norm_result[2]

\* C11 as stated: for every word, whatever its start and end, the adjusted
\* start is at most the word's end, and it is the raw start whenever
\* end - start <= maxDuration.
C11_NormalizationBound ==
    NormReturned =>
        /\ TimeLeq(AdjustedStart, Exact(norm_word.end))
        /\ ~DurationOverMax(norm_word) =>
               TimeEq(AdjustedStart, Exact(norm_word.start))

\* C11 amended: for every word whose start is at most its end, the adjusted
\* start is at most the word's end, and it is the raw start whenever
\* end - start <= maxDuration.
C11_NormalizationBoundOrdered ==
    (NormReturned /\ norm_word.start <= norm_word.end) =>
        /\ TimeLeq(AdjustedStart, Exact(norm_word.end))
        /\ ~DurationOverMax(norm_word) =>
               TimeEq(AdjustedStart, Exact(norm_word.start))

\* An eight-character word of half a second: within log_8(8) = 1 s, kept.
C11_Witness ==
    /\ NormReturned
    /\ Len(norm_word.word) = 8
    /\ norm_word.start = 1
    /\ norm_word.end = 4
    /\ AdjustedStart = Exact(1)

\* C12: maxDuration is log_8 of the character count; when end - start exceeds
\* it the start becomes end - maxDuration, the end is returned unchanged; a
\* one-character word of positive duration gets adjusted start = end, and the
\* word "a" from 0.0 s to 0.5 s gets adjusted start 0.5 s.
C12_SnapToMaxDuration ==
    NormReturned =>
        /\ AdjustedEnd = Exact(norm_word.end)
        /\ DurationOverMax(norm_word) =>
               TimeEq(AdjustedStart,
                      Time(norm_word.end, Len(norm_word.word)))
        /\ (Len(norm_word.word) = 1 /\ norm_word.end > norm_word.start) =>
               TimeEq(AdjustedStart, Exact(norm_word.end))
        /\ norm_word = Scenario4Word => AdjustedStart = Exact(3)

\* Scenario 4 of the specification has been normalized.
C12_Witness ==
    /\ NormReturned
    /\ norm_word = Scenario4Word
    /\ TimeEq(AdjustedStart, Exact(3))
    /\ AdjustedEnd = Exact(3)

(* ------------------- claims about caption_video ---------------------- *)

Captions == cap_out # None

\* Every clip of the call: those handed on, then those of the open line.
AllClips == cap_out.text_clips \o cap_out.current_line

\* The box of the flowing policy: from xpos to the right edge of the video.
FlowBoxLeft ==
    IF cap_call.caption_position = None
    THEN cap_call.video.size[1] \div 10
    ELSE cap_call.caption_position[1]

FlowBoxWidth == cap_call.video.size[1] - FlowBoxLeft

\* C13: in the flowing policy no line reaches further right of the box's left
\* edge than the box is wide, except a line of one word that alone is wider
\* than the box. Stated of every clip, the last of its line included.
C13_LineWithinBox ==
    (Captions /\ cap_call.caption_type = 1) =>
        \A k \in 1..Len(AllClips) :
            \/ AllClips[k].size[1] > FlowBoxWidth
            \/ AllClips[k].pos[1] + AllClips[k].size[1]
                   <= FlowBoxLeft + FlowBoxWidth

\* The words the layout is given: for the emphasis policy, after the merge.
LaidOut ==
    IF cap_call.caption_type = 2
    THEN MergeHyphens(cap_call.transcription)
    ELSE cap_call.transcription

\* The clips handed on for the words that were in the buffer at the end.
FinalShown ==
    SubSeq(cap_out.text_clips,
           Len(cap_out.text_clips) - Len(cap_out.current_line) + 1,
           Len(cap_out.text_clips))

\* C14: at the end of the words every word of the open buffer is handed on (no
\* word is missing from the output) and is shown until the last word's end
\* plus the policy's hold of 1.0 s to 2.0 s, or until the video ends if that
\* is earlier.
C14_FinalFlush ==
    (Captions /\ cap_call.caption_type \in {1, 2}) =>
        /\ Len(cap_out.text_clips) = Len(LaidOut)
        /\ \E hold \in 6..12 :
              \A k \in 1..Len(FinalShown) :
                  FinalShown[k].end =
                      Exact(Min(LastEnd(LaidOut) + hold,
                                cap_call.video.duration))

\* C15: caption_type 1 and caption_type 2 both run to the end and hand their
\* clips to the renderer without the unsupported-type error; every other
\* value is rejected with it.
C15_BothPoliciesSupported ==
    Captions =>
        IF cap_call.caption_type \in {1, 2}
        THEN cap_out.raised = "none" /\ cap_out.rendered
        ELSE cap_out.raised = NotSupported

(* ---------------------- the zoom tab, used --------------------------- *)

\* populate_videos(): on a tab change or a refresh from another tab. The
\* lists are cleared; the first video found, if any, is loaded at position 0
\* and its resolution is read, which may fail.
ZoomPopulateVideos ==
    /\ region_list' = <<>>
    /\ zoom_regions' = <<>>
    /\ active_rect' = NullRect
    /\ \E found \in BOOLEAN :
          IF found
          THEN /\ position' = 0
               /\ resolution' \in {Resolution, None}
          ELSE UNCHANGED <<position, resolution>>
    /\ UNCHANGED otherThanZoom

\* update_position(position): the player reports a position.
UpdatePosition ==
    /\ \E p \in Positions :
          /\ position' = p
          /\ active_rect' = ActiveRect(zoom_regions, p)
    /\ UNCHANGED <<zoom_regions, region_list, resolution>>
    /\ UNCHANGED otherThanZoom

\* add_zoom_region(rect_f): the user has drawn a rectangle.
AddZoomRegion ==
    /\ Len(zoom_regions) < MaxRegions
    /\ \E rect \in Rects :
          IF resolution = None
          THEN UNCHANGED <<zoom_regions, region_list>>
          ELSE LET regions ==
                       SortByTime(Append(zoom_regions,
                                         [time |-> position, rect |-> rect]))
               IN  /\ zoom_regions' = regions
                   /\ region_list' = Rows(regions)
    /\ UNCHANGED <<position, active_rect, resolution>>
    /\ UNCHANGED otherThanZoom

\* remove_selected_region(): row is the row of the first selected item, 0
\* when nothing is selected.
RemoveSelectedRegion ==
    /\ \E row \in 0..Len(region_list) :
          IF row = 0
          THEN UNCHANGED <<zoom_regions, region_list>>
          ELSE /\ region_list' = Pop(region_list, row)
               /\ zoom_regions' = Pop(zoom_regions, row)
    /\ UNCHANGED <<position, active_rect, resolution>>
    /\ UNCHANGED otherThanZoom

NextZoom ==
    \/ ZoomPopulateVideos
    \/ UpdatePosition
    \/ AddZoomRegion
    \/ RemoveSelectedRegion

SpecZoom == Init /\ [][NextZoom]_vars

(* ------------------- claims about the zoom tab ----------------------- *)

SortedByTime(regions) ==
    \A i, j \in 1..Len(regions) : i <= j => regions[i].time <= regions[j].time

\* C16: after any sequence of add-region, remove-selected-region and
\* populate_videos the zoom regions are in non-decreasing order of time, and
\* the displayed list has as many rows, row i showing region i.
C16_SortedAndAligned ==
    /\ SortedByTime(zoom_regions)
    /\ Len(region_list) = Len(zoom_regions)
    /\ \A i \in 1..Len(zoom_regions) : region_list[i] = RegionText(zoom_regions[i])

\* Two regions of different times and rectangles are held and shown.
C16_Witness ==
    /\ Len(zoom_regions) = 2
    /\ zoom_regions[1].time < zoom_regions[2].time
    /\ zoom_regions[1].rect # zoom_regions[2].rect
    /\ region_list = <<RegionText(zoom_regions[1]), RegionText(zoom_regions[2])>>

\* The rectangle of the last region of the whole list that is not after the
\* position, the null rectangle if there is none.
LastRegionRect(regions, p) ==
    LET before == {i \in 1..Len(regions) : regions[i].time <= p}
    IN  IF before = {} THEN NullRect
        ELSE regions[CHOOSE i \in before : \A j \in before : j <= i].rect

\* C17: whenever update_position has run, the active rectangle is that of the
\* last region whose time is at most the position, and the null rectangle if
\* there is none: in every state of the list the scan that stops early finds
\* what a scan of the whole list finds.
C17_ActiveIsLastRegionBefore ==
    [][UpdatePosition => active_rect' = LastRegionRect(zoom_regions', position')]_vars

\* The position lies between two regions: the scan stopped at the second and
\* the first is active.
C17_Witness ==
    /\ Len(zoom_regions) = 2
    /\ zoom_regions[1].time <= position
    /\ position < zoom_regions[2].time
    /\ zoom_regions[1].rect # zoom_regions[2].rect
    /\ active_rect = zoom_regions[1].rect

(* ---------------------- the remove-chunks tab, used ------------------ *)

\* The handlers run one at a time on the UI thread; the worker thread takes
\* its steps in between.
workerVars == <<worker_pc, worker_given, worker_outcome>>

\* add_chunk() without the test of start >= end.
AddChunkNoGuard ==
    /\ Len(tab_chunks) < MaxTabChunks
    /\ \E start \in SliderValues, end \in SliderValues :
          /\ chunk_list' = Append(chunk_list, ChunkText(start, end))
          /\ tab_chunks' = Append(tab_chunks, ChunkOf(start, end))
    /\ UNCHANGED <<selected_video, process_enabled, workerVars>>
    /\ UNCHANGED otherThanTab

\* add_chunk(): the slider's two values.
AddChunk ==
    /\ Len(tab_chunks) < MaxTabChunks
    /\ \E start \in SliderValues, end \in SliderValues :
          IF start >= end
          THEN UNCHANGED <<chunk_list, tab_chunks>>
          ELSE /\ chunk_list' = Append(chunk_list, ChunkText(start, end))
               /\ tab_chunks' = Append(tab_chunks, ChunkOf(start, end))
    /\ UNCHANGED <<selected_video, process_enabled, workerVars>>
    /\ UNCHANGED otherThanTab

\* remove_chunk_item(item): a row has been double-clicked.
RemoveChunkItem ==
    /\ \E row \in 1..Len(chunk_list) :
          /\ chunk_list' = Pop(chunk_list, row)
          /\ tab_chunks' = Pop(tab_chunks, row)
    /\ UNCHANGED <<selected_video, process_enabled, workerVars>>
    /\ UNCHANGED otherThanTab

\* populate_videos(): on a tab change or a refresh from another tab.
TabPopulateVideos ==
    /\ chunk_list' = <<>>
    /\ tab_chunks' = <<>>
    /\ selected_video' \in SelectedVideos
    /\ UNCHANGED <<process_enabled, workerVars>>
    /\ UNCHANGED otherThanTab

\* start_processing(): the enabled process button has been clicked. The
\* worker is given the list itself, not a copy.
StartProcessing ==
    /\ process_enabled
    /\ worker_pc = "none"
    /\ IF selected_video = ""
       THEN UNCHANGED <<process_enabled, workerVars>>
       ELSE /\ process_enabled' = FALSE
            /\ worker_pc' = "started"
            /\ worker_given' = [input_path |-> TabInPath(selected_video),
                                 output_path |-> TabOutPath(selected_video),
                                 chunks |-> tab_chunks]
            /\ worker_outcome' = None
    /\ UNCHANGED <<tab_chunks, chunk_list, selected_video>>
    /\ UNCHANGED otherThanTab

\* RemoveChunksWorker.run, remove_chunks up to line 176: the directory, the
\* test of the list, and the copy if the list is empty now.
WorkerEnter ==
    /\ worker_pc = "started"
    /\ \E makedirsFails \in BOOLEAN, cpFails \in BOOLEAN :
          IF makedirsFails \/ tab_chunks = <<>>
          THEN /\ worker_outcome' =
                      remove_chunks(worker_given.input_path,
                                    worker_given.output_path, <<>>,
                                    [makedirsFails |-> makedirsFails,
                                     cpFails |-> cpFails,
                                     ffmpegFails |-> FALSE])
               /\ worker_pc' = "emitted"
          ELSE /\ worker_outcome' = None
               /\ worker_pc' = "building"
    /\ UNCHANGED <<tab_chunks, chunk_list, selected_video, process_enabled,
                   worker_given>>
    /\ UNCHANGED otherThanTab

\* remove_chunks from line 179: sorted() copies the list as it is now; the
\* filter is built from the copy and the command is run.
WorkerBuild ==
    /\ worker_pc = "building"
    /\ \E ffmpegFails \in BOOLEAN :
          worker_outcome' =
              RunSelect(<<>>, SelectFilter(tab_chunks),
                        [makedirsFails |-> FALSE, cpFails |-> FALSE,
                         ffmpegFails |-> ffmpegFails])
    /\ worker_pc' = "emitted"
    /\ UNCHANGED <<tab_chunks, chunk_list, selected_video, process_enabled,
                   worker_given>>
    /\ UNCHANGED otherThanTab

\* on_processing_finished(success, message): the UI thread receives the
\* worker's signal.
OnProcessingFinished ==
    /\ worker_pc = "emitted"
    /\ process_enabled' = TRUE
    /\ IF worker_outcome.result = "True"
       THEN chunk_list' = <<>> /\ tab_chunks' = <<>>
       ELSE UNCHANGED <<chunk_list, tab_chunks>>
    /\ worker_pc' = "none"
    /\ worker_given' = None
    /\ worker_outcome' = None
    /\ UNCHANGED selected_video
    /\ UNCHANGED otherThanTab

NextTab ==
    \/ AddChunk
    \/ RemoveChunkItem
    \/ TabPopulateVideos
    \/ StartProcessing
    \/ WorkerEnter
    \/ WorkerBuild
    \/ OnProcessingFinished

SpecTab == Init /\ [][NextTab]_vars

(* ------------------- claims about the remove-chunks tab -------------- *)

\* C18: what a running remove-chunks worker does is remove_chunks of the list
\* as it was when processing was started; add_chunk, remove_chunk_item and
\* populate_videos running meanwhile on the UI thread change nothing of it.
C18_WorkerProcessesListAsStarted ==
    worker_pc = "emitted" =>
        \E env \in ChunkEnvs :
            worker_outcome =
                remove_chunks(worker_given.input_path, worker_given.output_path,
                              worker_given.chunks, env)

(* ---------------------- build_filter_complex, called ----------------- *)

\* CaptioningThread.run calls build_filter_complex.
BuildFilterComplex ==
    /\ draw_out = None
    /\ \E call \in DrawCalls :
          /\ draw_call' = call
          /\ draw_out' = build_filter_complex(call)
    /\ UNCHANGED otherThanDraw

\* run goes on to ffmpeg with the filter; the next run follows.
DrawReturn ==
    /\ draw_out # None
    /\ draw_call' = None
    /\ draw_out' = None
    /\ UNCHANGED otherThanDraw

NextDraw == BuildFilterComplex \/ DrawReturn

SpecDraw == Init /\ [][NextDraw]_vars

(* ------------------- claims about build_filter_complex --------------- *)

Drawn == draw_out # None

DrawBox == CaptionBox(draw_call.video.size[1], draw_call.video.size[2])

\* More than 2 s lie between the end of word i - 1 and the adjusted start of
\* word i.
LongPauseBefore(transcription, i) ==
    ~TimeLeq(word_timing_adjusted(transcription[i])[1],
             Exact(transcription[i - 1].end + 12))

\* C20: in the multi-line layout a word whose adjusted start is more than 2 s
\* after the previous word's end starts a fresh screen at the box's top-left,
\* and the screen before it stays visible for the extra 1.5 s after the
\* previous word's end.
C20_PauseFlushesWithLag ==
    Drawn =>
        \A i \in 2..Len(draw_call.transcription) :
            LongPauseBefore(draw_call.transcription, i) =>
                /\ draw_out.drawtext_filters[i].x = DrawBox[3]
                /\ draw_out.drawtext_filters[i].y = DrawBox[4]
                /\ draw_out.drawtext_filters[i - 1].until
                       >= draw_call.transcription[i - 1].end + 9


(* ------------------- the two multi-line layouts ---------------------- *)

\* The calls of caption_video that reach the emphasis policy, on the longer
\* video and at the default position: the position only shifts the clips.
LayoutCalls ==
    { call \in CaptionCalls :
        /\ call.caption_type = 2
        /\ call.caption_position = None
        /\ call.video.duration = 60 }

\* A call of caption_video with caption_type 2.
EmphasisCall ==
    /\ cap_out = None
    /\ draw_out = None
    /\ \E call \in LayoutCalls :
          /\ cap_call' = call
          /\ cap_out' = caption_video(call)
    /\ UNCHANGED otherThanCap

\* A call of build_filter_complex.
DrawCall ==
    /\ cap_out = None
    /\ BuildFilterComplex

\* One call at a time of either multi-line layout.
NextLayout == EmphasisCall \/ CapReturn \/ DrawCall \/ DrawReturn

SpecLayout == Init /\ [][NextLayout]_vars

\* The box of the emphasis policy: (width, height).
EmphasisBox ==
    IF cap_call.caption_size # None THEN cap_call.caption_size
    ELSE IF cap_call.video.size[1] > cap_call.video.size[2]
    THEN <<(cap_call.video.size[1] * 30) \div 100,
           (cap_call.video.size[2] * 34) \div 100>>
    ELSE <<(cap_call.video.size[1] * 40) \div 100,
           (cap_call.video.size[2] * 30) \div 100>>

\* The top of the emphasis policy's box on the video.
EmphasisTop ==
    IF cap_call.caption_position = None THEN 60
    ELSE cap_call.caption_position[2]

\* The height build_filter_complex measured for a fragment's text.
MeasuredHeight(fragment) ==
    get_text_dimensions(fragment.text, 60, draw_call.fontFails)[2]

\* Every clip of the emphasis policy is on the first line of its screen or
\* ends above the bottom of the box.
ClipsWithinBoxHeight ==
    (Captions /\ cap_call.caption_type = 2) =>
        \A k \in 1..Len(cap_out.text_clips) :
            LET clip == cap_out.text_clips[k]
                y == clip.pos[2] - EmphasisTop
            IN  y = 0 \/ y + clip.size[2] <= EmphasisBox[2]

\* Every fragment of build_filter_complex is on the first line of its screen
\* or ends above the bottom of the box.
FragmentsWithinBoxHeight ==
    Drawn =>
        \A k \in 1..Len(draw_out.drawtext_filters) :
            LET fragment == draw_out.drawtext_filters[k]
                y == fragment.y - DrawBox[4]
            IN  y = 0 \/ y + MeasuredHeight(fragment) <= DrawBox[2]

\* C21: in both multi-line layouts every fragment is placed at vertical
\* offset 0, the first line of a fresh screen, or at an offset y with
\* y + its measured height <= the box height.
C21_PlacedWithinBoxHeight ==
    ClipsWithinBoxHeight /\ FragmentsWithinBoxHeight

\* A screen of build_filter_complex with a second line that fits, followed by
\* a word whose line would have overflowed and so opens a fresh screen; or
\* the same in the emphasis policy.
C21_Witness ==
    \/ /\ Drawn
       /\ \E k \in 2..Len(draw_out.drawtext_filters) :
             /\ draw_out.drawtext_filters[k - 1].y > DrawBox[4]
             /\ draw_out.drawtext_filters[k].y = DrawBox[4]
             /\ ~LongPauseBefore(draw_call.transcription, k)
             /\ draw_call.transcription[k].start
                    - draw_call.transcription[k - 1].end <= 12
    \/ /\ Captions /\ cap_call.caption_type = 2
       /\ \E k \in 2..Len(cap_out.text_clips) :
             /\ cap_out.text_clips[k - 1].pos[2] > EmphasisTop
             /\ cap_out.text_clips[k].pos[2] = EmphasisTop
             /\ ~LongPauseBefore(LaidOut, k)


(* ------------------- claims about the emphasis policy ---------------- *)

\* word.lower().replace(".", "").replace(",", "") in AVOID_LIST
IsStopWord(text) == without(without(lower(text), "."), ",") \in AVOID_LIST

\* The size a clip was drawn for: its height without the margins.
ChosenSize(clip) == clip.size[2] - 14

\* C22: in the emphasis policy every word's size is one of small, medium and
\* large, and a word of the stop-word set is never drawn at the large size,
\* wherever it falls in a line.
C22_StopWordsNeverLarge ==
    (Captions /\ cap_call.caption_type = 2) =>
        \A k \in 1..Len(cap_out.text_clips) :
            LET clip == cap_out.text_clips[k]
                fonts == Fonts(cap_call.font_size)
            IN  /\ ChosenSize(clip) \in {fonts[1], fonts[2], fonts[3]}
                /\ IsStopWord(clip.text) => ChosenSize(clip) # fonts[3]


(* --------------------- _create_font_autoresize ----------------------- *)

\* A call of _create_font_autoresize(size, word, max_width).
CreateFontAutoresize ==
    /\ fit_out = None
    /\ \E call \in FitCalls :
          /\ fit_call' = call
          /\ fit_out' =
                [clip |-> create_font_autoresize(call.size, call.word, call.max_width),
                 tried |-> TriedFrom(10, call.size, call.word, call.max_width)]
    /\ UNCHANGED otherThanFit

\* The layout goes on with the clip; the next call follows.
FitReturn ==
    /\ fit_out # None
    /\ fit_call' = None
    /\ fit_out' = None
    /\ UNCHANGED otherThanFit

NextFit == CreateFontAutoresize \/ FitReturn

SpecFit == Init /\ [][NextFit]_vars

Fitted == fit_out # None

\* The width of the clip drawn at modifier i tenths.
WidthAt(i) ==
    TextClip(fit_call.word, fit_call.size * i, fit_call.size, 26, 14).size[1]

\* C23: the auto-fit loop ends after a bounded number of steps, tries sizes
\* in strictly decreasing order from the requested size, returns the first
\* size whose width is within the maximum, and when none fits returns a
\* floor size above 0.
C23_AutoFitReturnsPositiveSize ==
    Fitted =>
        LET tried == fit_out.tried
            clip == fit_out.clip
        IN  /\ Len(tried) <= 11
            /\ tried[1] = 10
            /\ \A k \in 2..Len(tried) : tried[k] < tried[k - 1]
            /\ clip.font = fit_call.size * tried[Len(tried)]
            /\ \A k \in 1..(Len(tried) - 1) :
                   ~(WidthAt(tried[k]) < fit_call.max_width)
            /\ clip.font > 0


\* The approximate size of a text at font size 60: 0.6 * 60 for a character.
ApproxWidth(text) == (Len(text) * 60 * 6) \div 10

\* C24: when the font cannot be loaded or measured, the measurement returns
\* (len(text) * font_size * 0.6, font_size) and the layout goes on with it:
\* every word gets its fragment, a word that stays on the line is one
\* approximate word and one approximate blank right of the word before, and
\* a wrapped word is font_size + 10 below it.
C24_ApproximateSizeOnFontFailure ==
    (Drawn /\ draw_call.fontFails) =>
        /\ Len(draw_out.drawtext_filters) = Len(draw_call.transcription)
        /\ \A k \in 2..Len(draw_out.drawtext_filters) :
              LET before == draw_out.drawtext_filters[k - 1]
                  this == draw_out.drawtext_filters[k]
              IN  \/ /\ this.y = before.y
                     /\ this.x = before.x + ApproxWidth(before.text)
                                  + ApproxWidth(<<" ">>)
                  \/ /\ this.y = before.y + 60 + 10
                     /\ this.x = DrawBox[3]
                     /\ this.y + 60 <= DrawBox[4] + DrawBox[2]
                  \/ /\ this.y = DrawBox[4]
                     /\ this.x = DrawBox[3]

\* A call without font metrics that laid a word behind another on a line and
\* opened a fresh screen, without a pause, for a word that fitted no more.
C24_Witness ==
    /\ Drawn
    /\ draw_call.fontFails
    /\ \E k \in 2..Len(draw_out.drawtext_filters) :
          /\ draw_out.drawtext_filters[k].y = draw_out.drawtext_filters[k - 1].y
          /\ draw_out.drawtext_filters[k].x > DrawBox[3]
    /\ \E k \in 2..Len(draw_out.drawtext_filters) :
          /\ draw_out.drawtext_filters[k].x = DrawBox[3]
          /\ draw_call.transcription[k].start
                 = draw_call.transcription[k - 1].end


(* ------------------ the download tab and its worker ------------------ *)

\* start_download(): a click on the enabled Download button.
StartDownload ==
    /\ download_button
    /\ \E url \in Urls, filename \in Filenames :
          IF url = ""
          THEN /\ message_box' = "warning"
               /\ UNCHANGED <<download_button, dl_thread, dl_pc, dl_returned,
                              dl_finished, progress_bar, status_label, refreshes>>
          ELSE /\ download_button' = FALSE
               /\ status_label' = "Starting download..."
               /\ dl_thread' = [url |-> url, filename |-> filename]
               /\ dl_pc' = "running"
               /\ dl_returned' = "none"
               /\ dl_finished' = None
               /\ UNCHANGED <<progress_bar, message_box, refreshes>>
    /\ UNCHANGED otherThanDownload

\* yt-dlp calls progress_hook while the download runs.
ProgressHook ==
    /\ dl_pc = "running"
    /\ \E d \in ProgressDicts :
          /\ progress_hook(d) # None
          /\ progress_bar' = progress_hook(d)[1]
    /\ UNCHANGED <<download_button, dl_thread, dl_pc, dl_returned, dl_finished,
                   status_label, message_box, refreshes>>
    /\ UNCHANGED otherThanDownload

\* DownloadWorker.run(): download_video's value is dropped; finished is
\* (True, "Download finished!") unless the call raised.
DownloadRun ==
    /\ dl_pc = "running"
    /\ \E env \in DownloadEnvs :
          LET returned == download_video(dl_thread.url, dl_thread.filename, env)
          IN  /\ dl_returned' = returned
              /\ dl_finished' =
                    IF returned = "raised"
                    THEN [success |-> FALSE, message |-> "makedirs failed"]
                    ELSE [success |-> TRUE, message |-> "Download finished!"]
    /\ dl_pc' = "emitted"
    /\ UNCHANGED <<download_button, dl_thread, progress_bar, status_label,
                   message_box, refreshes>>
    /\ UNCHANGED otherThanDownload

\* on_download_finished(success, message)
OnDownloadFinished ==
    /\ dl_pc = "emitted"
    /\ download_button' = TRUE
    /\ status_label' = dl_finished.message
    /\ IF dl_finished.success
       THEN /\ message_box' = "information"
            /\ refreshes' = Min(refreshes + 1, MaxRefreshes)
       ELSE /\ message_box' = "critical"
            /\ UNCHANGED refreshes
    /\ progress_bar' = 0
    /\ dl_pc' = "none"
    /\ UNCHANGED <<dl_thread, dl_returned, dl_finished>>
    /\ UNCHANGED otherThanDownload

NextDownload ==
    StartDownload \/ ProgressHook \/ DownloadRun \/ OnDownloadFinished

SpecDownload == Init /\ [][NextDownload]_vars

\* C25: when download_video caught the error and returned False, the
\* worker's finished signal carries success = False; success is reported
\* only when the download succeeded.
C25_FailedDownloadReportsFailure ==
    dl_finished # None =>
        (dl_finished.success <=> dl_returned = "True")


(* --------------------------- process_zoom_pan ------------------------ *)

\* A call of process_zoom_pan.
ProcessZoomPan ==
    /\ pan_out = None
    /\ \E call \in PanCalls :
          /\ pan_call' = call
          /\ pan_out' = process_zoom_pan(call.input_path, call.output_path,
                                         call.zoom_regions, call.env)
    /\ UNCHANGED otherThanPan

\* The worker has the value or the exception; the next call follows.
PanReturn ==
    /\ pan_out # None
    /\ pan_call' = None
    /\ pan_out' = None
    /\ UNCHANGED otherThanPan

NextPan == ProcessZoomPan \/ PanReturn

SpecPan == Init /\ [][NextPan]_vars

\* A call that got as far as building the concat filter.
PanBuilt ==
    /\ pan_out # None
    /\ pan_call.zoom_regions # <<>>
    /\ pan_call.env.duration > 0

\* The trim filters of the call, in the order of their clips.
Trims ==
    [k \in 1..(Len(pan_out.filter_complex) \div 2) |->
        pan_out.filter_complex[2 * k - 1]]

AllBelowDuration ==
    \A k \in 1..Len(pan_call.zoom_regions) :
        pan_call.zoom_regions[k].time < pan_call.env.duration

\* The last of the sorted regions with the time of region i.
LastOfTime(regions, i) ==
    \A j \in (i + 1)..Len(regions) : regions[j].time # regions[i].time

\* C26: for a non-empty region list and a positive duration at least one
\* clip is emitted and concat's n is the number of video/audio clip pairs;
\* when all region times are below the duration the trims are contiguous,
\* cover [0, duration] and each has end > start; of the regions of one time
\* only the last in sorted order gets a clip.
C26_ClipsPartitionTheVideo ==
    PanBuilt =>
        /\ pan_out.concat_n >= 1
        /\ Len(pan_out.filter_complex) = 2 * pan_out.concat_n
        /\ Len(pan_out.clip_streams) = 2 * pan_out.concat_n
        /\ \A k \in 1..pan_out.concat_n :
              /\ pan_out.filter_complex[2 * k - 1].filter = "trim"
              /\ pan_out.filter_complex[2 * k].filter = "atrim"
              /\ pan_out.filter_complex[2 * k - 1].start
                     = pan_out.filter_complex[2 * k].start
              /\ pan_out.filter_complex[2 * k - 1].end
                     = pan_out.filter_complex[2 * k].end
              /\ pan_out.clip_streams[2 * k - 1]
                     = pan_out.filter_complex[2 * k - 1].label
              /\ pan_out.clip_streams[2 * k] = pan_out.filter_complex[2 * k].label
        /\ AllBelowDuration =>
              /\ Trims[1].start = 0
              /\ Trims[Len(Trims)].end = pan_call.env.duration
              /\ \A k \in 1..Len(Trims) : Trims[k].end > Trims[k].start
              /\ \A k \in 2..Len(Trims) : Trims[k].start = Trims[k - 1].end
              /\ \A i \in 1..Len(pan_out.regions) :
                    LastOfTime(pan_out.regions, i) =>
                        \E k \in 1..Len(Trims) :
                            Trims[k].start = pan_out.regions[i].time
        /\ \A k, l \in 1..Len(Trims) :
              k # l => Trims[k].start # Trims[l].start
        /\ \A k \in 1..Len(Trims) :
              Trims[k].rect # None =>
                  \E i \in 1..Len(pan_out.regions) :
                      /\ LastOfTime(pan_out.regions, i)
                      /\ pan_out.regions[i].time = Trims[k].start
                      /\ pan_out.regions[i].rect = Trims[k].rect

\* Two regions of one time below the duration, behind an un-zoomed clip.
C26_Witness ==
    /\ PanBuilt
    /\ AllBelowDuration
    /\ Len(pan_out.regions) = 2
    /\ pan_out.regions[1].time = pan_out.regions[2].time
    /\ pan_out.regions[1].rect # pan_out.regions[2].rect
    /\ pan_out.concat_n = 2


(* ---------------------- the processing workers ----------------------- *)

\* start_processing(): a click on the enabled Process button of a tab.
ClickProcess(tab) ==
    /\ buttons[tab]
    /\ \E video \in SelectedVideos :
          IF video = ""
          THEN UNCHANGED workersVars
          ELSE /\ buttons' = [buttons EXCEPT ![tab] = FALSE]
               /\ labels' = [labels EXCEPT ![tab] = "Processing..."]
               /\ running' = [running EXCEPT ![tab] = @ + 1]
               /\ emitted' = [emitted EXCEPT ![tab] = 0]
               /\ UNCHANGED pending
    /\ UNCHANGED otherThanWorkers

\* run() of the tab's worker, from the call of the operation to its return.
WorkerRun(tab) ==
    /\ running[tab] > 0
    /\ \E outcome \in Outcomes :
          /\ emitted' = [emitted EXCEPT ![tab] = @ + Len(run(outcome))]
          /\ pending' = [pending EXCEPT ![tab] = @ \o run(outcome)]
    /\ running' = [running EXCEPT ![tab] = @ - 1]
    /\ UNCHANGED <<buttons, labels>>
    /\ UNCHANGED otherThanWorkers

\* on_processing_finished(success, message): the event loop delivers the
\* oldest finished signal of the tab.
DeliverFinished(tab) ==
    /\ pending[tab] # <<>>
    /\ buttons' = [buttons EXCEPT ![tab] = TRUE]
    /\ labels' = [labels EXCEPT ![tab] = Head(pending[tab]).message]
    /\ pending' = [pending EXCEPT ![tab] = Tail(@)]
    /\ UNCHANGED <<running, emitted>>
    /\ UNCHANGED otherThanWorkers

NextWorkers ==
    \E tab \in WorkerTabs :
        ClickProcess(tab) \/ WorkerRun(tab) \/ DeliverFinished(tab)

SpecWorkers == Init /\ [][NextWorkers]_vars

\* A started thread runs, the operation it calls returns or raises, and the
\* event loop of the UI thread delivers every queued signal.
SpecWorkersFair ==
    /\ SpecWorkers
    /\ \A tab \in WorkerTabs :
          WF_vars(WorkerRun(tab)) /\ WF_vars(DeliverFinished(tab))

\* A worker inside run() has emitted nothing yet; one that has left it has
\* emitted one signal; no tab has two workers.
OneSignalOneWorker ==
    \A tab \in WorkerTabs :
        /\ running[tab] <= 1
        /\ running[tab] = 1 => emitted[tab] = 0 /\ ~buttons[tab]
        /\ (running[tab] = 0 /\ labels[tab] # InitialLabel(tab)) => emitted[tab] = 1
        /\ Len(pending[tab]) <= 1

\* C27: every run of a processing worker emits finished exactly once,
\* whether the operation returned True, returned False or raised; the
\* process button, disabled at the click, is re-enabled in the end; a tab
\* never has two workers running.
C27_FinishedOnceButtonReenabled ==
    /\ []OneSignalOneWorker
    /\ \A tab \in WorkerTabs : (~buttons[tab]) ~> buttons[tab]

\* The zoom tab is back at an enabled button after its operation raised,
\* while the worker of the remove-silence tab is running.
C27_Witness ==
    /\ buttons["zoom"]
    /\ labels["zoom"] = "str(e)"
    /\ emitted["zoom"] = 1
    /\ running["remove_silence"] = 1
    /\ ~buttons["remove_silence"]


\* C28: the displayed chunk list and tab.chunks_to_remove have the same
\* length and order, row i showing chunk i, and every stored chunk has
\* 0 <= start < end.
C28_RowsShowChunks ==
    /\ Len(chunk_list) = Len(tab_chunks)
    /\ \A i \in 1..Len(tab_chunks) :
          /\ chunk_list[i] = ChunkText(tab_chunks[i][1] * 100, tab_chunks[i][2] * 100)
          /\ 0 <= tab_chunks[i][1]
          /\ tab_chunks[i][1] < tab_chunks[i][2]

\* Two different chunks are listed, the second added while the worker of a
\* started run is at work.
C28_Witness ==
    /\ Len(tab_chunks) = 2
    /\ tab_chunks[1] # tab_chunks[2]
    /\ chunk_list[1] # chunk_list[2]
    /\ ~process_enabled
    /\ worker_pc = "building"
    /\ Len(worker_given.chunks) = 1


\* Each word starts no later than it ends, starts and ends do not decrease
\* along the transcription, and no word starts after the video ends.
WellTimed ==
    /\ \A k \in 1..Len(draw_call.transcription) :
          /\ draw_call.transcription[k].start <= draw_call.transcription[k].end
          /\ draw_call.transcription[k].start <= draw_call.video.duration
    /\ \A k \in 2..Len(draw_call.transcription) :
          /\ draw_call.transcription[k - 1].start <= draw_call.transcription[k].start
          /\ draw_call.transcription[k - 1].end <= draw_call.transcription[k].end

\* C29: for a well-timed transcription every drawtext fragment of
\* build_filter_complex, of a screen flushed on a break or of the last one,
\* is enabled between(t, from, until) with from <= until.
C29_EnableWindowOrdered ==
    (Drawn /\ WellTimed) =>
        \A k \in 1..Len(draw_out.drawtext_filters) :
            draw_out.drawtext_filters[k].from <= draw_out.drawtext_filters[k].until

\* A screen was flushed on a break, and the last screen is shown until the
\* video ends, less than 2 s after its last word.
C29_Witness ==
    /\ Drawn
    /\ WellTimed
    /\ Len(draw_out.line_buffer) < Len(draw_out.drawtext_filters)
    /\ LastEnd(draw_call.transcription) + 12 > draw_call.video.duration
    /\ draw_out.drawtext_filters[Len(draw_out.drawtext_filters)].until
           = draw_call.video.duration


\* The texts of the words i..j of a transcription, joined.
RECURSIVE Joined(_, _, _)
Joined(transcription, i, j) ==
    IF i > j THEN <<>>
    ELSE transcription[i].word \o Joined(transcription, i + 1, j)

\* C30: the hyphen-merge pre-pass of the emphasis policy loses no text, also
\* over runs of two or more words that start with "-": the texts after the
\* merge, joined, are the texts before it, joined; every merged word ends
\* where the last word merged into it ends; no word but the first starts
\* with "-".
C30_MergeLosesNoText ==
    (Captions /\ cap_call.caption_type = 2) =>
        LET before == cap_call.transcription
            after == LaidOut
        IN  /\ Joined(after, 1, Len(after)) = Joined(before, 1, Len(before))
            /\ \A k \in 2..Len(after) : ~StartsWithHyphen(after[k].word)
            /\ \A k \in 1..Len(after) :
                  \E i \in 1..Len(before), j \in 1..Len(before) :
                      /\ i <= j
                      /\ before[i].start = after[k].start
                      /\ after[k].word = Joined(before, i, j)
                      /\ after[k].end = before[j].end
                      /\ \A m \in (i + 1)..j : StartsWithHyphen(before[m].word)
                      /\ j < Len(before) => ~StartsWithHyphen(before[j + 1].word)

====
